---- MODULE Spec2Model ----
(***************************************************************************)
(* A model of dgpenn/video-tools: the makemkvcon --robot line parser       *)
(* (src/makemkv.py) and the per-device rip pipeline (src/ripper.py) with   *)
(* the device handle (src/disc.py) and the process wrapper (src/common.py).*)
(*                                                                         *)
(* A Python str is a sequence of tokens.  A token is either one of the     *)
(* characters the code looks at (":", ",", the double quote, a blank, a    *)
(* line feed) or a maximal run of other characters.  split, strip, replace *)
(* and int work on these sequences the way the str methods work on         *)
(* characters.                                                             *)
(***************************************************************************)
EXTENDS Integers, Sequences, FiniteSets, TLC

VARIABLES
    mmkv,       \* the MakeMKVParser session (all its attributes)
    fed,        \* the lines handed to MakeMKVParser.parse so far, in order
    escaped,    \* the exception that left the last parse call (cls "None": none)
    cfg,        \* the Ripper's configuration, fixed by __init__
    env,        \* the tools on this machine: which exist, how the muxer behaves
    hw,         \* the drive as the kernel reports it
    disc,       \* the Ripper's Disc handle: valid, drive_status, disc_status
    rip,        \* the Ripper's mutable attributes: last_run_code, title_count
    pc,         \* where Ripper.rip is
    ti,         \* position of the per-title loop in mmkv.titles
    procs,      \* the makemkvcon processes spawned so far, in order
    fs,         \* the output tree: files, directories, files remuxed
    unlocks,    \* unlock_tray calls made by rip itself (line 404)
    eject,      \* the run of _eject, if rip called it
    exc,        \* the exception that ended rip (cls "None": none) and where
    arg,        \* the arguments of the call under way or last made
    ret,        \* what that call returned or raised
    ct,         \* a Container: its streams and chapters
    main,       \* the main thread: where it is, Ripper.ID, the exception leaving it
    jobs,       \* per supplied device: its Ripper and the future of its rip
    fds         \* how many descriptors fd_command opened and did not close

parserVars == <<mmkv, fed, escaped>>

ripVars == <<cfg, env, hw, disc, rip, pc, ti, procs, fs, unlocks, eject, exc>>

\* The variables of the components beside the parser and rip.
restVars == <<arg, ret, ct, main, jobs, fds>>

RestIdle == arg = <<>> /\ ret = <<>> /\ ct = <<>> /\ main = <<>> /\ jobs = <<>> /\ fds = 0

----------------------------------------------------------------------------
(* Python values whose type matters to a comparison.                       *)

PyStr(v) == [type |-> "str", value |-> v]
PyInt(v) == [type |-> "int", value |-> v]

\* x in list(xs), by ==: a str never equals an int (or an IntEnum member).
PyIn(x, xs) == \E y \in xs : x.type = y.type /\ x.value = y.value

Last(seq) == seq[Len(seq)]

NoExc == [cls |-> "None", msg |-> <<>>]
Ok(s) == [s |-> s, exc |-> NoExc]
Raise(s, cls, msg) == [s |-> s, exc |-> [cls |-> cls, msg |-> <<msg>>]]

----------------------------------------------------------------------------
(* str methods.                                                            *)

Whitespace == {" ", "\n"}

strip(s) ==
    LET keep == {i \in 1..Len(s) : s[i] \notin Whitespace} IN
    IF keep = {} THEN <<>>
    ELSE SubSeq(s, CHOOSE i \in keep : \A j \in keep : i <= j,
                   CHOOSE i \in keep : \A j \in keep : i >= j)

\* s.split(sep, maxsplit); a negative maxsplit is no limit.
RECURSIVE split(_, _, _)
split(s, sep, maxsplit) ==
    LET hits == {i \in 1..Len(s) : s[i] = sep} IN
    IF maxsplit = 0 \/ hits = {} THEN <<s>>
    ELSE LET i == CHOOSE j \in hits : \A k \in hits : j <= k IN
         <<SubSeq(s, 1, i - 1)>> \o split(SubSeq(s, i + 1, Len(s)), sep, maxsplit - 1)

\* s.replace(old, "")
replace(s, old) == SelectSeq(s, LAMBDA t : t # old)

\* The decimal literals that occur in the modelled lines, with their values.
IntLiteral ==
    ("-1" :> -1) @@ ("0" :> 0) @@ ("1" :> 1) @@ ("2" :> 2) @@ ("3" :> 3) @@ ("4" :> 4)
    @@ ("00" :> 0) @@ ("01" :> 1) @@ ("06" :> 6) @@ ("08" :> 8) @@ ("9" :> 9) @@ ("10" :> 10)
    @@ ("16" :> 16) @@ ("20" :> 20) @@ ("27" :> 27) @@ ("40" :> 40) @@ ("99" :> 99)
    @@ ("1005" :> 1005) @@ ("5010" :> 5010) @@ ("5011" :> 5011) @@ ("5003" :> 5003)
    @@ ("7" :> 7) @@ ("9999" :> 9999)

\* int(s): surrounding whitespace is ignored; anything but one literal raises.
int(s) ==
    LET t == strip(s) IN
    IF Len(t) = 1 /\ t[1] \in DOMAIN IntLiteral
    THEN [ok |-> TRUE, v |-> IntLiteral[t[1]]]
    ELSE [ok |-> FALSE, v |-> 0]

\* float(s), on the same literals.
float(s) == int(s)

RECURSIVE GCD(_, _)
GCD(a, b) == IF b = 0 THEN a ELSE GCD(b, a % b)

\* a / b for b # 0, as the fraction in lowest terms.
TrueDiv(a, b) == LET g == GCD(a, b) IN <<a \div g, b \div g>>

----------------------------------------------------------------------------
(* MakeMKVMessage: the closed enumerations.                                *)

UI_MSG == {0, 1, 16, 32, 64, 128, 260, 516, 776, 1028, 1288, 1544, 3854, 5200,
           131072, 131088, 16777216, 16908288}

MSG_CODE == {0, 1002, 1005, 1011, 1012, 2003, 2008, 2023, 3002, 3007, 3025, 3028,
             3037, 3038, 3100, 3102, 3103, 3104, 3120, 3307, 3309, 3344, 3400,
             3401, 3402, 3404, 3406, 4004, 4007, 4008, 4009, 4047, 5001, 5003,
             5004, 5005, 5010, 5011, 5014, 5017, 5018, 5024, 5036, 5037, 5051,
             5052, 5054, 5055, 5057, 5076, 5077, 5085, 5088, 5091, 5092, 6119,
             6120, 6121, 6201, 6202, 6203, 6206, 6209, 6212}

DISC_FLAG == {0, 1, 2, 4, 8, 16}

DRIVE_STATE == {0, 1, 2, 3, 256, 257}

ATTR_ID == 0..50

ATTR_Duration == 9

ATTR_OutputFileName == 27

\* The attributes _process_id converts with int().
ATTR_Integers == {33, 8, 11, 25, 22, 14, 17, 18}

MSG_CODE_ERRORS == {1002, 1012, 2003, 2023, 4004, 4009, 5003, 5004, 5010, 5037,
                    5052, 5055, 5076, 5077}

MSG_CODE_SUCCESS == {5011}

----------------------------------------------------------------------------
(* MakeMKVParser.                                                          *)

EmptyDict == [k \in {} |-> 0]

NewParser ==
    [raw_message |-> <<>>, message_type |-> <<>>, title_count |-> -1,
     progress |-> <<0, 1>>, total_progress |-> <<0, 1>>,
     drive_index |-> -1, drive_visible |-> -1, drive_enabled |-> -1,
     disc_flags |-> -1, drive_name |-> <<>>, disc_name |-> <<>>,
     operation |-> PyStr(<<>>), title_number |-> -1, message |-> <<>>,
     message_code |-> -1, message_flags |-> -1, message_format |-> <<>>,
     message_params |-> <<>>, disc |-> EmptyDict, titles |-> <<>>,
     message_error_count |-> 0, message_success_count |-> 0]

\* _process_id(id, raw_value): the converted value, or ok = FALSE (ValueError).
ProcessId(id, raw_value) ==
    LET raw == replace(raw_value, "\"") IN
    IF id = ATTR_Duration
    THEN LET p == split(raw, ":", 2)
             n == [i \in 1..Len(p) |-> int(p[i])] IN
         IF Len(p) = 3 /\ \A i \in 1..3 : n[i].ok
         THEN [ok |-> TRUE, v |-> PyInt(n[3].v + n[1].v * 3600 + n[2].v * 60)]
         ELSE [ok |-> FALSE, v |-> PyInt(0)]
    ELSE IF id \in ATTR_Integers
    THEN [ok |-> int(raw).ok, v |-> PyInt(int(raw).v)]
    ELSE [ok |-> TRUE, v |-> PyStr(raw)]

\* Position of the title keyed n in the (insertion-ordered) titles dict, 0 if absent.
TitleIndex(titles, n) ==
    IF \E i \in 1..Len(titles) : titles[i].key = n
    THEN CHOOSE i \in 1..Len(titles) : titles[i].key = n
    ELSE 0

ResetTitle(titles, n) ==
    IF TitleIndex(titles, n) = 0
    THEN Append(titles, [key |-> n, attrs |-> EmptyDict, streams |-> EmptyDict])
    ELSE [titles EXCEPT ![TitleIndex(titles, n)] =
             [key |-> n, attrs |-> EmptyDict, streams |-> EmptyDict]]

\* if title_number not in self.titles: add it, with an empty "streams" dict.
AddNewTitle(titles, n) ==
    IF TitleIndex(titles, n) # 0 THEN titles
    ELSE Append(titles, [key |-> n, attrs |-> EmptyDict, streams |-> EmptyDict])

\* case PRGV (lines 312-315)
ParsePRGV(s, content) ==
    LET p == split(content, ",", 2)
        n == [i \in 1..Len(p) |-> float(p[i])] IN
    IF Len(p) # 3 \/ \E i \in 1..Len(p) : ~n[i].ok
    THEN Raise(s, "ValueError", "could not convert string to float")
    ELSE IF n[3].v = 0 THEN Raise(s, "ZeroDivisionError", "float division by zero")
    ELSE Ok([s EXCEPT !.progress = TrueDiv(n[1].v, n[3].v),
                      !.total_progress = TrueDiv(n[2].v, n[3].v)])

\* case DRV (lines 318-345): the fields are stored one by one, then validated.
ParseDRV(s, content) ==
    LET p == split(content, ",", 5) IN
    IF Len(p) # 6 THEN Raise(s, "ValueError", "not enough values to unpack")
    ELSE IF ~int(p[1]).ok THEN Raise(s, "ValueError", "invalid literal for int()")
    ELSE LET s1 == [s EXCEPT !.drive_index = int(p[1]).v] IN
    IF ~int(p[2]).ok THEN Raise(s1, "ValueError", "invalid literal for int()")
    ELSE LET s2 == [s1 EXCEPT !.drive_visible = int(p[2]).v] IN
    IF ~int(p[4]).ok THEN Raise(s2, "ValueError", "invalid literal for int()")
    ELSE LET s3 == [s2 EXCEPT !.disc_flags = int(p[4]).v] IN
    IF ~int(p[3]).ok THEN Raise(s3, "ValueError", "invalid literal for int()")
    ELSE LET s4 == [s3 EXCEPT !.drive_enabled = int(p[3]).v,
                              !.drive_name = p[5], !.disc_name = p[6]] IN
    IF s4.drive_visible \notin DRIVE_STATE
    THEN Raise(s4, "ValueError", "The DRV visible value was not found!")
    ELSE IF s4.disc_flags \notin DISC_FLAG
    THEN Raise(s4, "ValueError", "The DRV flags value was not found!")
    ELSE Ok(s4)

CountAndForget(s, code) ==
    IF int(code).v \in MSG_CODE_ERRORS
    THEN [s EXCEPT !.message_error_count = @ + 1, !.message_success_count = 0]
    ELSE IF int(code).v \in MSG_CODE_SUCCESS
    THEN [s EXCEPT !.message_success_count = @ + 1, !.message_error_count = 0]
    ELSE s

\* Lines 382-388.  `code` is still the str cut out of the line (the int went
\* to self.message_code); the two tuples hold MSG_CODE members, which are ints.
CountMessage(s, code) ==
    LET errors == {PyInt(c) : c \in MSG_CODE_ERRORS}
        success == {PyInt(c) : c \in MSG_CODE_SUCCESS}
        s1 == IF PyIn(PyStr(code), errors)
              THEN [s EXCEPT !.message_error_count = @ + 1] ELSE s IN
    IF PyIn(PyStr(code), success)
    THEN [s1 EXCEPT !.message_success_count = @ + 1, !.message_error_count = 0]
    ELSE s1

\* case MSG (lines 348-388)
ParseMSG(s, content) ==
    LET p == split(content, ",", 4) IN
    IF Len(p) # 5 THEN Raise(s, "ValueError", "not enough values to unpack")
    ELSE IF ~int(p[1]).ok THEN Raise(s, "ValueError", "invalid literal for int()")
    ELSE LET s1 == [s EXCEPT !.message_code = int(p[1]).v] IN
    IF ~int(p[2]).ok THEN Raise(s1, "ValueError", "invalid literal for int()")
    ELSE LET s2 == [s1 EXCEPT !.message_flags = int(p[2]).v] IN
    IF ~int(p[3]).ok THEN Raise(s2, "ValueError", "invalid literal for int()")
    ELSE LET count == int(p[3]).v
             s3 == IF p[4] # <<>> THEN [s2 EXCEPT !.message = replace(p[4], "\"")] ELSE s2
             q == split(p[5], ",", 1)
             bound == Len(q) = 2     \* whether the local `params` got a value
             s4 == [s3 EXCEPT !.message_format = IF bound THEN q[1] ELSE p[5]] IN
    IF count # 0 /\ ~bound
    THEN Raise(s4, "UnboundLocalError", "cannot access local variable 'params'")
    ELSE LET s5 == [s4 EXCEPT !.message_params =
                        IF count # 0 THEN split(q[2], ",", count - 1) ELSE <<>>] IN
    IF s5.message_flags \notin UI_MSG
    THEN Raise(s5, "ValueError", "The MSG flags value was not found!")
    ELSE IF s5.message_code \notin MSG_CODE
    THEN Raise(s5, "ValueError", "The MSG code value was not found!")
    ELSE Ok(CountMessage(s5, p[1]))

\* case PRGC | PRGT (lines 391-401)
ParsePRG(s, content) ==
    LET p == split(content, ",", 2) IN
    IF Len(p) # 3 THEN Raise(s, "ValueError", "not enough values to unpack")
    ELSE IF ~int(p[1]).ok THEN Raise(s, "ValueError", "invalid literal for int()")
    ELSE LET s1 == [s EXCEPT !.message_code = int(p[1]).v] IN
    IF ~int(p[2]).ok THEN Raise(s1, "ValueError", "invalid literal for int()")
    ELSE LET s2 == [s1 EXCEPT !.title_number = int(p[2]).v,
                              !.message = replace(p[3], "\"")] IN
    IF s2.message_code \notin MSG_CODE
    THEN Raise(s2, "ValueError", "is not a valid MakeMKVMessage.MSG_CODE")
    ELSE Ok([s2 EXCEPT !.operation = PyInt(s2.message_code), !.message_flags = -1,
                       !.message_format = <<>>, !.message_params = <<>>])

\* case CINFO (lines 404-409)
ParseCINFO(s, content) ==
    LET p == split(content, ",", 2) IN
    IF Len(p) # 3 THEN Raise(s, "ValueError", "not enough values to unpack")
    ELSE IF ~int(p[1]).ok \/ ~int(p[2]).ok
    THEN Raise(s, "ValueError", "invalid literal for int()")
    ELSE LET id == int(p[1]).v
             value == ProcessId(id, p[3]) IN
    IF ~value.ok THEN Raise(s, "ValueError", "invalid literal for int()")
    ELSE IF id \notin ATTR_ID
    THEN Raise(s, "ValueError", "is not a valid MakeMKVMessage.ATTR_ID")
    ELSE Ok([s EXCEPT !.disc = (id :> value.v) @@ @])

\* case TINFO (lines 412-425): the title is added before the attribute id is
\* looked up in ATTR_ID.
ParseTINFO(s, content) ==
    LET p == split(content, ",", 3) IN
    IF Len(p) # 4 THEN Raise(s, "ValueError", "not enough values to unpack")
    ELSE IF ~int(p[1]).ok \/ ~int(p[2]).ok \/ ~int(p[3]).ok
    THEN Raise(s, "ValueError", "invalid literal for int()")
    ELSE LET title_number == int(p[1]).v
             id == int(p[2]).v
             value == ProcessId(id, p[4]) IN
    IF ~value.ok THEN Raise(s, "ValueError", "invalid literal for int()")
    ELSE LET s1 == [s EXCEPT !.titles = AddNewTitle(@, title_number)]
             i == TitleIndex(s1.titles, title_number) IN
    IF id \notin ATTR_ID
    THEN Raise(s1, "ValueError", "is not a valid MakeMKVMessage.ATTR_ID")
    ELSE Ok([s1 EXCEPT !.titles[i].attrs = (id :> value.v) @@ @])

\* case SINFO (lines 428-448): title and stream are added before the attribute
\* id is looked up in ATTR_ID.
ParseSINFO(s, content) ==
    LET p == split(content, ",", 4) IN
    IF Len(p) # 5 THEN Raise(s, "ValueError", "not enough values to unpack")
    ELSE IF ~int(p[1]).ok \/ ~int(p[2]).ok \/ ~int(p[3]).ok \/ ~int(p[4]).ok
    THEN Raise(s, "ValueError", "invalid literal for int()")
    ELSE LET title_number == int(p[1]).v
             stream_number == int(p[2]).v
             id == int(p[3]).v
             value == ProcessId(id, p[5]) IN
    IF ~value.ok THEN Raise(s, "ValueError", "invalid literal for int()")
    ELSE LET s1 == [s EXCEPT !.titles = AddNewTitle(@, title_number)]
             i == TitleIndex(s1.titles, title_number)
             s2 == IF stream_number \in DOMAIN s1.titles[i].streams THEN s1
                   ELSE [s1 EXCEPT !.titles[i].streams = (stream_number :> EmptyDict) @@ @] IN
    IF id \notin ATTR_ID
    THEN Raise(s2, "ValueError", "is not a valid MakeMKVMessage.ATTR_ID")
    ELSE Ok([s2 EXCEPT !.titles[i].streams[stream_number] = (id :> value.v) @@ @])

\* case TCOUNT (lines 451-452)
ParseTCOUNT(s, content) ==
    IF ~int(content).ok THEN Raise(s, "ValueError", "invalid literal for int()")
    ELSE Ok([s EXCEPT !.title_count = int(content).v])

\* SplitType with the tag stored before the unpacking is known to succeed.
SplitTypeEager(s) ==
    LET p == split(s.raw_message, ":", 1) IN
    [s |-> [s EXCEPT !.message_type = p[1]],
     content |-> IF Len(p) = 2 THEN p[2] ELSE <<>>,
     exc |-> IF Len(p) = 2 THEN NoExc
             ELSE [cls |-> "ValueError", msg |-> <<"not enough values to unpack">>]]

\* Line 309: self.message_type, content = self.raw_message.split(":", 1).
\* The right-hand side is unpacked before either target is assigned.
SplitType(s) ==
    LET p == split(s.raw_message, ":", 1) IN
    IF Len(p) # 2
    THEN [s |-> s, content |-> <<>>,
          exc |-> [cls |-> "ValueError", msg |-> <<"not enough values to unpack">>]]
    ELSE [s |-> [s EXCEPT !.message_type = p[1]], content |-> p[2], exc |-> NoExc]

\* The match statement (lines 310-456).
Dispatch(s, content) ==
    CASE s.message_type = <<"PRGV">> -> ParsePRGV(s, content)
      [] s.message_type = <<"DRV">> -> ParseDRV(s, content)
      [] s.message_type = <<"MSG">> -> ParseMSG(s, content)
      [] s.message_type \in {<<"PRGC">>, <<"PRGT">>} -> ParsePRG(s, content)
      [] s.message_type = <<"CINFO">> -> ParseCINFO(s, content)
      [] s.message_type = <<"TINFO">> -> ParseTINFO(s, content)
      [] s.message_type = <<"SINFO">> -> ParseSINFO(s, content)
      [] s.message_type = <<"TCOUNT">> -> ParseTCOUNT(s, content)
      [] OTHER -> Ok([s EXCEPT !.message = <<"Unknown MakeMKV Type! - ">> \o s.raw_message])

\* An except clause that names ValueError alone.
CaughtValueErrorOnly(cls) == cls = "ValueError"

\* The classes `except Exception` (line 458) catches.
CaughtByParse(cls) == cls \in {"ValueError", "ZeroDivisionError", "UnboundLocalError",
                               "KeyError", "TypeError"}

\* The body of the try statement (lines 309-456): the session as the body
\* left it and the exception that ended it, if any.
decode(s, message) ==
    LET s0 == [s EXCEPT !.raw_message = strip(message)]
        t == SplitType(s0) IN
    IF t.exc.cls # "None" THEN [s |-> t.s, exc |-> t.exc]
    ELSE Dispatch(t.s, t.content)

\* MakeMKVParser.parse(message): the session afterwards and the exception
\* that leaves the call, if any.
parse(s, message) ==
    LET r == decode(s, message) IN
    IF r.exc.cls = "None" THEN [s |-> r.s, exc |-> NoExc]
    ELSE IF CaughtByParse(r.exc.cls)
    THEN [s |-> [r.s EXCEPT !.message = <<"Parsing Exception: ">> \o r.exc.msg
                                        \o <<"\nRaw Message: ">> \o r.s.raw_message],
          exc |-> NoExc]
    ELSE [s |-> r.s, exc |-> r.exc]

----------------------------------------------------------------------------
(* Lines of makemkvcon --robot output, as readline returns them.           *)

Quoted(t) == <<"\"">> \o t \o <<"\"">>

RECURSIVE JoinComma(_)
JoinComma(fields) ==
    IF Len(fields) = 0 THEN <<>>
    ELSE IF Len(fields) = 1 THEN fields[1]
    ELSE fields[1] \o <<",">> \o JoinComma(Tail(fields))

Line(tag, fields) == <<tag, ":">> \o JoinComma(fields) \o <<"\n">>

HMS(h, m, sec) == Quoted(<<h, ":", m, ":", sec>>)

\* The lines fed to a parser on its own: every tag, well-formed and not.
Lines ==
    { <<"garbage", " ", "no", " ", "delimiter", "\n">>,
      <<"MSG", ",", "5011", ",", "0", "\n">>,
      Line("MSG", << <<"5010">>, <<"0">>, <<"0">>, Quoted(<<"Failed to open disc">>),
                     Quoted(<<"Failed to open disc">>) >>),
      Line("MSG", << <<"5011">>, <<"0">>, <<"0">>, Quoted(<<"Operation successfully completed">>),
                     Quoted(<<"Operation successfully completed">>) >>),
      Line("MSG", << <<"1005">>, <<"0">>, <<"1">>, Quoted(<<"MakeMKV started">>),
                     Quoted(<<"%1 started">>), Quoted(<<"MakeMKV">>) >>),
      Line("MSG", << <<"9999">>, <<"0">>, <<"0">>, Quoted(<<"x">>), Quoted(<<"x">>) >>),
      Line("MSG", << <<"5011">>, <<"0">>, <<"1">>, Quoted(<<"x">>), Quoted(<<"x">>) >>),
      Line("MSG", << <<"5003">>, <<"0">>, <<"0">>, <<>>, Quoted(<<"Failed to save title">>) >>),
      Line("PRGV", << <<"1">>, <<"2">>, <<"4">> >>),
      Line("PRGV", << <<"1">>, <<"2">>, <<"0">> >>),
      Line("DRV", << <<"0">>, <<"2">>, <<"1">>, <<"1">>, Quoted(<<"BD-RE">>), Quoted(<<"DISC">>) >>),
      Line("DRV", << <<"1">>, <<"7">>, <<"1">>, <<"1">>, Quoted(<<"BD-RE">>), Quoted(<<"DISC">>) >>),
      Line("PRGC", << <<"5011">>, <<"0">>, Quoted(<<"Saving to MKV file">>) >>),
      Line("PRGT", << <<"9999">>, <<"1">>, Quoted(<<"Saving">>) >>),
      Line("CINFO", << <<"2">>, <<"0">>, Quoted(<<"DISC">>) >>),
      Line("TINFO", << <<"0">>, <<"9">>, <<"0">>, HMS("0", "08", "20") >>),
      Line("TINFO", << <<"1">>, <<"99">>, <<"0">>, Quoted(<<"x">>) >>),
      Line("TINFO", << <<"0">>, <<"9">>, <<"0">>, Quoted(<<"soon">>) >>),
      Line("SINFO", << <<"0">>, <<"1">>, <<"3">>, <<"0">>, Quoted(<<"eng">>) >>),
      Line("SINFO", << <<"2">>, <<"0">>, <<"99">>, <<"0">>, Quoted(<<"x">>) >>),
      Line("TCOUNT", << <<"2">> >>),
      Line("TCOUNT", << <<"two">> >>),
      <<" ">> \o Line("TCOUNT", << <<"4">> >>),
      Line("XYZ", << <<"1">> >>) }

\* How many lines one parser is fed.
MaxFeed == 3

----------------------------------------------------------------------------
(* A parser fed arbitrary lines.                                           *)

vars == <<mmkv, fed, escaped, cfg, env, hw, disc, rip, pc, ti, procs, fs, unlocks, eject, exc,
          arg, ret, ct, main, jobs, fds>>

ParserInit ==
    /\ mmkv = NewParser
    /\ fed = <<>>
    /\ escaped = NoExc
    /\ cfg = <<>> /\ env = <<>> /\ hw = <<>> /\ disc = <<>> /\ rip = <<>>
    /\ pc = "none" /\ ti = 0 /\ procs = <<>> /\ fs = <<>> /\ unlocks = 0
    /\ eject = <<>> /\ exc = [cls |-> "None", at |-> "none"]
    /\ RestIdle

\* One call of MakeMKVParser.parse.
Feed(line) ==
    /\ Len(fed) < MaxFeed
    /\ escaped.cls = "None"
    /\ mmkv' = parse(mmkv, line).s
    /\ escaped' = parse(mmkv, line).exc
    /\ fed' = Append(fed, line)
    /\ UNCHANGED <<ripVars, restVars>>

ParserNext == \E line \in Lines : Feed(line)

SpecParser == ParserInit /\ [][ParserNext]_vars

----------------------------------------------------------------------------
(* Disc (src/disc.py).                                                     *)

CDS_NO_INFO == 0

CDS_NO_DISC == 1

CDS_TRAY_OPEN == 2

CDS_DRIVE_NOT_READY == 3

CDS_DISC_OK == 4

CDS_AUDIO == 100

CDS_DATA_1 == 101

CDS_DATA_2 == 102

CDS_XA_1 == 103

CDS_XA_2 == 104

CDS_MIXED == 105

\* The codes the match in get_drive_status returns.
DriveStatusCodes == {CDS_NO_INFO, CDS_NO_DISC, CDS_TRAY_OPEN, CDS_DRIVE_NOT_READY, CDS_DISC_OK}

DriveAndDiscStatusCodes ==
    {CDS_NO_INFO, CDS_NO_DISC, CDS_TRAY_OPEN, CDS_DRIVE_NOT_READY, CDS_DISC_OK,
     CDS_AUDIO, CDS_DATA_1, CDS_DATA_2, CDS_XA_1, CDS_XA_2, CDS_MIXED}

\* The codes the match in get_disc_status returns.
DiscStatusCodes == {CDS_AUDIO, CDS_DATA_1, CDS_DATA_2, CDS_XA_1, CDS_XA_2, CDS_MIXED,
                    CDS_NO_DISC, CDS_NO_INFO}

\* Disc.__init__, before its first query.
DefaultDisc == [valid |-> FALSE, drive_status |-> CDS_NO_INFO, disc_status |-> CDS_NO_DISC]

\* Disc.query(): the handle afterwards and the exception raised, if any.
Query(d, h) ==
    LET d1 == IF h.exists THEN [d EXCEPT !.valid = h.cdrom] ELSE d IN
    IF ~d1.valid THEN [d |-> d1, cls |-> "None"]
    ELSE IF h.drive_status \notin DriveStatusCodes THEN [d |-> d1, cls |-> "ValueError"]
    ELSE LET d2 == [d1 EXCEPT !.drive_status = h.drive_status] IN
    IF h.disc_status \notin DiscStatusCodes THEN [d |-> d2, cls |-> "ValueError"]
    ELSE [d |-> [d2 EXCEPT !.disc_status = h.disc_status], cls |-> "None"]

----------------------------------------------------------------------------
(* Ripper (src/ripper.py).                                                 *)

PyNone == [type |-> "NoneType", value |-> 0]

PyEq(a, b) == a.type = b.type /\ a.value = b.value

\* movie_minimum = 0.9, as the ratio MovieMinimumNum / MovieMinimumDen.
MovieMinimumNum == 9

MovieMinimumDen == 10

IsData(status) == status \in {CDS_DATA_1, CDS_DATA_2}

\* case Disc.CDS_DATA_1 (line 292)
IsRippable(status) == status = CDS_DATA_1

EjectRequested(r, c) == c.eject_on_rip

\* Line 407: self.last_run_code == 0 and self.eject_on_rip
EjectWanted(r, c) == PyEq(r.last_run_code, PyInt(0)) /\ c.eject_on_rip

LastLineLeft(p) == Len(p.out) <= 1

\* iter(remote.stdout.readline, ""): the sentinel that ends run_command's loop.
ReadlineEOF(p) == p.out = <<>>

\* dict.pop(key) on the titles dict: ok = FALSE is KeyError.
Pop(titles, k) ==
    [ok |-> TitleIndex(titles, k) # 0,
     titles |-> SelectSeq(titles, LAMBDA x : x.key # k)]

\* The filter loop (lines 332-348) from its i-th iteration on.  keys is the
\* dict as it was when the for statement took its iterator: the iterator
\* raises RuntimeError at the first step at which the dict has another size.
RECURSIVE FilterLoop(_, _, _, _, _)
FilterLoop(titles, keys, i, max_duration, c) ==
    IF Len(titles) # Len(keys) THEN [titles |-> titles, cls |-> "RuntimeError"]
    ELSE IF i > Len(keys) THEN [titles |-> titles, cls |-> "None"]
    ELSE LET k == keys[i]
             attrs == titles[TitleIndex(titles, k)].attrs IN
    IF ATTR_Duration \notin DOMAIN attrs THEN [titles |-> titles, cls |-> "KeyError"]
    ELSE LET duration == attrs[ATTR_Duration].value
             p1 == IF duration < c.minimum_duration THEN Pop(titles, k)
                   ELSE [ok |-> TRUE, titles |-> titles]
             p2 == IF duration > c.maximum_duration THEN Pop(p1.titles, k)
                   ELSE [ok |-> TRUE, titles |-> p1.titles]
             m == IF duration >= max_duration THEN duration ELSE max_duration
             p3 == IF /\ c.media_type = "MOVIE" /\ c.feature_only
                      /\ duration * MovieMinimumDen < m * MovieMinimumNum
                   THEN Pop(p2.titles, k)
                   ELSE [ok |-> TRUE, titles |-> p2.titles] IN
    IF ~p2.ok THEN [titles |-> p2.titles, cls |-> "KeyError"]
    ELSE IF ~p3.ok THEN [titles |-> p3.titles, cls |-> "KeyError"]
    ELSE FilterLoop(p3.titles, keys, i + 1, m, c)

\* str(n).zfill(2), for n < 10.
ZFill2(n) == <<"00", "01", "02", "03", "04", "05", "06", "07", "08", "09">>[n + 1]

NewFilenameNoID(c, filename, title_number) ==
    LET media_title == <<c.title>> \o (IF c.year.type = "int" /\ c.year.value # 0
                                      THEN <<" (", c.year.value, ")">> ELSE <<>>)
        suffix == IF Len(filename.name) >= 2 THEN <<Last(filename.name)>> ELSE <<>> IN
    IF c.media_type = "MOVIE"
    THEN [dir |-> "media", name |-> media_title \o <<" T", ZFill2(title_number)>> \o suffix]
    ELSE IF c.media_type = "SHOW" /\ c.season.type = "int" /\ c.season.value >= 0
    THEN [dir |-> "season",
          name |-> media_title \o <<" S", ZFill2(c.season.value),
                                    "T", ZFill2(title_number)>> \o suffix]
    ELSE [dir |-> "videos", name |-> media_title \o <<" T", ZFill2(title_number)>> \o suffix]

\* The path _process_video_rename renames to (lines 208-246).
NewFilename(c, filename, title_number) ==
    LET media_title == <<c.title>> \o (IF c.year.type = "int" /\ c.year.value # 0
                                      THEN <<" (", c.year.value, ")">> ELSE <<>>)
        suffix == IF Len(filename.name) >= 2 THEN <<Last(filename.name)>> ELSE <<>> IN
    IF c.media_type = "MOVIE"
    THEN [dir |-> "media",
          name |-> media_title \o <<" I", ZFill2(c.id), "T", ZFill2(title_number)>> \o suffix]
    ELSE IF c.media_type = "SHOW" /\ c.season.type = "int" /\ c.season.value >= 0
    THEN [dir |-> "season",
          name |-> media_title \o <<" I", ZFill2(c.id), "S", ZFill2(c.season.value),
                                    "T", ZFill2(title_number)>> \o suffix]
    ELSE [dir |-> "videos",
          name |-> media_title \o <<" I", ZFill2(c.id), "T", ZFill2(title_number)>> \o suffix]

RenameOver(tree, c, filename, title_number) ==
    LET new == NewFilename(c, filename, title_number)
        t1 == IF new.dir = "season" THEN [tree EXCEPT !.dirs = @ \cup {"season"}] ELSE tree IN
    IF filename \in t1.files
    THEN [fs |-> [t1 EXCEPT !.files = (@ \ {filename}) \cup {new}], filename |-> new]
    ELSE [fs |-> t1, filename |-> filename]

\* _process_video_rename: the tree afterwards and the path returned.
Rename(tree, c, filename, title_number) ==
    LET new == NewFilename(c, filename, title_number)
        t1 == IF new.dir = "season" THEN [tree EXCEPT !.dirs = @ \cup {"season"}] ELSE tree IN
    IF filename \in t1.files /\ new \notin t1.files
    THEN [fs |-> [t1 EXCEPT !.files = (@ \ {filename}) \cup {new}], filename |-> new]
    ELSE [fs |-> t1, filename |-> filename]

\* _process_video_remux_profile on this file: the tree afterwards and the
\* exception raised, if any.  mkvmerge fails on a missing input.
Remux(tree, c, e, filename) ==
    IF c.remux_profile = "REMUX_NONE" THEN [fs |-> tree, cls |-> "None"]
    ELSE IF e.muxer = "fail" \/ filename \notin tree.files
    THEN [fs |-> tree, cls |-> "CalledProcessError"]
    ELSE [fs |-> [tree EXCEPT !.remuxed = @ \cup {filename}], cls |-> "None"]

----------------------------------------------------------------------------
(* What one run of rip meets: configuration, tools, drive, engine output.  *)

Configs ==
    [id : {1}, title : {"Movie"}, year : {PyNone}, season : {PyNone, PyInt(1)},
     media_type : {"VIDEO", "MOVIE", "SHOW"},
     minimum_duration : {0, 900}, maximum_duration : {3800, 99999},
     eject_on_rip : BOOLEAN, feature_only : {TRUE},
     remux_profile : {"REMUX_NONE", "REMUX_ENGLISH_ONLY"}]

Envs == [makemkvcon : BOOLEAN, muxer : {"ok", "fail"}]

Devices ==
    { [exists |-> TRUE, cdrom |-> TRUE, drive_status |-> CDS_DISC_OK, disc_status |-> CDS_DATA_1],
      [exists |-> TRUE, cdrom |-> TRUE, drive_status |-> CDS_DISC_OK, disc_status |-> CDS_AUDIO],
      [exists |-> TRUE, cdrom |-> TRUE, drive_status |-> CDS_DISC_OK, disc_status |-> CDS_DATA_2],
      [exists |-> TRUE, cdrom |-> TRUE, drive_status |-> CDS_NO_DISC, disc_status |-> CDS_NO_DISC],
      [exists |-> TRUE, cdrom |-> TRUE, drive_status |-> CDS_TRAY_OPEN, disc_status |-> CDS_NO_INFO],
      [exists |-> TRUE, cdrom |-> TRUE, drive_status |-> CDS_DISC_OK, disc_status |-> CDS_DISC_OK],
      [exists |-> TRUE, cdrom |-> FALSE, drive_status |-> CDS_NO_INFO, disc_status |-> CDS_NO_INFO] }

TitleLines(n, h, m, sec, file) ==
    << Line("TINFO", << <<n>>, <<"9">>, <<"0">>, HMS(h, m, sec) >>),
       Line("TINFO", << <<n>>, <<"27">>, <<"0">>, Quoted(<<file, ".mkv">>) >>) >>

MsgDone == Line("MSG", << <<"5011">>, <<"0">>, <<"0">>, Quoted(<<"Operation successfully completed">>),
                          Quoted(<<"Operation successfully completed">>) >>)

MsgFailed == Line("MSG", << <<"5010">>, <<"0">>, <<"0">>, Quoted(<<"Failed to open disc">>),
                            Quoted(<<"Failed to open disc">>) >>)

\* 500 s then 4000 s.
InfoShortLong == TitleLines("0", "0", "08", "20", "title_t00") \o TitleLines("1", "1", "06", "40", "title_t01") \o <<MsgDone>>

\* 4000 s then 500 s.
InfoLongShort == TitleLines("0", "1", "06", "40", "title_t00") \o TitleLines("1", "0", "08", "20", "title_t01") \o <<MsgDone>>

\* 3700 s then 4000 s.
InfoNear == TitleLines("0", "1", "01", "40", "title_t00") \o TitleLines("1", "1", "06", "40", "title_t01") \o <<MsgDone>>

\* 4000 s alone.
InfoOne == TitleLines("0", "1", "06", "40", "title_t00") \o <<MsgDone>>

InfoScripts == {InfoShortLong, InfoLongShort, InfoNear, InfoOne, <<MsgFailed>>}

\* makemkvcon mkv: its output, its exit code, whether it wrote the file.
MkvRuns ==
    { [script |-> <<MsgDone>>, code |-> 0, writes |-> TRUE],
      [script |-> <<MsgFailed>>, code |-> 1, writes |-> FALSE] }

\* How often _eject goes round its loop at most.
MaxEjectTries == 2

----------------------------------------------------------------------------
(* Ripper.rip, one device.                                                 *)

\* Ripper.__init__ built its Disc, whose constructor queries the drive, when
\* the drive held what it holds now or when its tray was still open; a
\* constructor that raised left no Ripper.
ConstructedOn(hw0, h) ==
    /\ Query(DefaultDisc, hw0).cls = "None"
    /\ hw0.cdrom = h.cdrom
    /\ hw0 = h \/ hw0.drive_status = CDS_TRAY_OPEN

RipNoExc == [cls |-> "None", at |-> "none"]

RipInit ==
    /\ mmkv = NewParser /\ fed = <<>> /\ escaped = NoExc
    /\ cfg \in Configs
    /\ (cfg.media_type # "SHOW") => cfg.season = PyNone
    /\ env \in Envs
    /\ (cfg.remux_profile = "REMUX_NONE") => env.muxer = "ok"
    /\ hw \in Devices
    /\ \E hw0 \in Devices : ConstructedOn(hw0, hw) /\ disc = Query(DefaultDisc, hw0).d
    /\ rip = [last_run_code |-> PyInt(-1), title_count |-> -1]
    /\ pc = "start" /\ ti = 0 /\ procs = <<>>
    /\ fs = [files |-> {}, dirs |-> {}, remuxed |-> {}]
    /\ unlocks = 0
    /\ eject = [entered |-> FALSE, attempts |-> 0, opened |-> FALSE]
    /\ exc = RipNoExc
    /\ RestIdle

Raised(cls, at) == pc' = "raised" /\ exc' = [cls |-> cls, at |-> at]

\* Lines 289-292: self.disc.query() and the match on disc_status.
RipQuery ==
    /\ pc = "start"
    /\ LET q == Query(disc, hw) IN
       /\ disc' = q.d
       /\ IF q.cls # "None" THEN Raised(q.cls, "query")
          ELSE /\ pc' = IF IsRippable(q.d.disc_status) THEN "info" ELSE "unlock"
               /\ exc' = exc
    /\ UNCHANGED <<parserVars, cfg, env, hw, rip, ti, procs, fs, unlocks, eject, restVars>>

\* Lines 295-309: a new parser, check_command, Popen of makemkvcon info.
RipStartInfo ==
    /\ pc = "info"
    /\ mmkv' = NewParser /\ fed' = <<>> /\ escaped' = NoExc
    /\ IF ~env.makemkvcon
       THEN Raised("FileNotFoundError", "check_command") /\ procs' = procs
       ELSE /\ \E sc \in InfoScripts, code \in {0, 1} :
                 procs' = Append(procs, [cmd |-> "info", title |-> -1, script |-> sc,
                                         out |-> sc, code |-> code, writes |-> FALSE,
                                         state |-> "running"])
            /\ pc' = "info_read" /\ exc' = exc
    /\ UNCHANGED <<cfg, env, hw, disc, rip, ti, fs, unlocks, eject, restVars>>

\* Lines 310-315 and 381-386: one turn of `for line in ...: mmkv.parse(line)`
\* on the running process, the info pass or an extraction.
RipLine ==
    /\ pc \in {"info_read", "mkv_read"}
    /\ ~ReadlineEOF(Last(procs))
    /\ procs' = [procs EXCEPT ![Len(procs)].out = Tail(@)]
    /\ mmkv' = parse(mmkv, Head(Last(procs).out)).s
    /\ escaped' = parse(mmkv, Head(Last(procs).out)).exc
    /\ fed' = Append(fed, Head(Last(procs).out))
    /\ IF escaped'.cls # "None" THEN Raised(escaped'.cls, "parse")
       ELSE pc' = pc /\ exc' = exc
    /\ UNCHANGED <<cfg, env, hw, disc, rip, ti, fs, unlocks, eject, restVars>>

\* Lines 316-329: the info pass is over; return when it found no title.
RipInfoEnd ==
    /\ pc = "info_read"
    /\ ReadlineEOF(procs[Len(procs)])
    /\ procs' = [procs EXCEPT ![Len(procs)].state = "exited"]
    /\ rip' = [rip EXCEPT !.last_run_code = PyInt(procs[Len(procs)].code)]
    /\ IF mmkv.titles = <<>>
       THEN pc' = "returned" /\ fs' = fs
       ELSE pc' = "filter" /\ fs' = [fs EXCEPT !.dirs = @ \cup {"media", "videos"}]
    /\ UNCHANGED <<parserVars, cfg, env, hw, disc, ti, unlocks, eject, exc, restVars>>

\* Lines 331-351: the filter pass and title_count.
RipFilter ==
    /\ pc = "filter"
    /\ LET r == FilterLoop(mmkv.titles, [i \in 1..Len(mmkv.titles) |-> mmkv.titles[i].key],
                           1, 0, cfg) IN
       /\ mmkv' = [mmkv EXCEPT !.titles = r.titles]
       /\ IF r.cls # "None"
          THEN Raised(r.cls, "filter") /\ rip' = rip /\ ti' = ti
          ELSE /\ rip' = [rip EXCEPT !.title_count = Len(r.titles)]
               /\ pc' = "titles" /\ ti' = 1 /\ exc' = exc
    /\ UNCHANGED <<fed, escaped, cfg, env, hw, disc, procs, fs, unlocks, eject, restVars>>

\* The file makemkvcon writes for the title at position i.
RawFilename(i) ==
    [dir |-> "videos", name |-> mmkv.titles[i].attrs[ATTR_OutputFileName].value]

\* Lines 354-380: the next title: unlink, check_command, Popen of makemkvcon mkv.
RipStartTitle ==
    /\ pc = "titles"
    /\ ti <= Len(mmkv.titles)
    /\ IF ATTR_OutputFileName \notin DOMAIN mmkv.titles[ti].attrs
       THEN Raised("KeyError", "titles") /\ procs' = procs /\ fs' = fs
       ELSE /\ fs' = [fs EXCEPT !.files = @ \ {RawFilename(ti)}]
            /\ IF ~env.makemkvcon
               THEN Raised("FileNotFoundError", "check_command") /\ procs' = procs
               ELSE /\ \E run \in MkvRuns :
                         procs' = Append(procs, [cmd |-> "mkv", title |-> mmkv.titles[ti].key,
                                                 script |-> run.script, out |-> run.script,
                                                 code |-> run.code, writes |-> run.writes,
                                                 state |-> "running"])
                    /\ pc' = "mkv_read" /\ exc' = exc
    /\ UNCHANGED <<parserVars, cfg, env, hw, disc, rip, ti, unlocks, eject, restVars>>

\* Lines 387-393: the extraction is over; last_run_code, rename, remux.
RipMkvEnd ==
    /\ pc = "mkv_read"
    /\ ReadlineEOF(procs[Len(procs)])
    /\ LET p == procs[Len(procs)]
           written == IF p.writes THEN [fs EXCEPT !.files = @ \cup {RawFilename(ti)}] ELSE fs
           moved == Rename(written, cfg, RawFilename(ti), p.title)
           mux == Remux(moved.fs, cfg, env, moved.filename) IN
       /\ procs' = [procs EXCEPT ![Len(procs)].state = "exited"]
       /\ rip' = [rip EXCEPT !.last_run_code = [type |-> "GeneratorExit", value |-> p.code]]
       /\ fs' = mux.fs
       /\ IF mux.cls # "None" THEN Raised(mux.cls, "remux") /\ ti' = ti
          ELSE pc' = "titles" /\ ti' = ti + 1 /\ exc' = exc
    /\ UNCHANGED <<parserVars, cfg, env, hw, disc, unlocks, eject, restVars>>

\* Lines 395-399: after the last title, remove the videos directory if empty.
RipLoopEnd ==
    /\ pc = "titles"
    /\ ti > Len(mmkv.titles)
    /\ fs' = IF "videos" \in fs.dirs /\ ~\E f \in fs.files : f.dir = "videos"
             THEN [fs EXCEPT !.dirs = @ \ {"videos"}] ELSE fs
    /\ pc' = "unlock"
    /\ UNCHANGED <<parserVars, cfg, env, hw, disc, rip, ti, procs, unlocks, eject, exc, restVars>>

\* Lines 403-408: unlock_tray, then _eject when wanted.  The ioctl raises
\* OSError on a device that is no CD-ROM drive.  _eject goes round its loop
\* until the drive reports the tray open or the time limit has passed.
RipUnlock ==
    /\ pc = "unlock"
    /\ unlocks' = unlocks + 1
    /\ fds' = IF ~hw.cdrom THEN fds + 1 ELSE fds
    /\ IF ~hw.cdrom THEN Raised("OSError", "unlock") /\ eject' = eject /\ hw' = hw
       ELSE IF EjectWanted(rip, cfg)
       THEN \E n \in 1..MaxEjectTries, opened \in BOOLEAN :
               /\ eject' = [entered |-> TRUE, attempts |-> n, opened |-> opened]
               /\ hw' = IF opened THEN [hw EXCEPT !.drive_status = CDS_TRAY_OPEN] ELSE hw
               /\ pc' = "done" /\ exc' = exc
       ELSE pc' = "done" /\ exc' = exc /\ eject' = eject /\ hw' = hw
    /\ UNCHANGED <<parserVars, cfg, env, disc, rip, ti, procs, fs, arg, ret, ct, main, jobs>>

RipNext ==
    \/ RipQuery
    \/ RipStartInfo
    \/ RipLine
    \/ RipInfoEnd
    \/ RipFilter
    \/ RipStartTitle
    \/ RipMkvEnd
    \/ RipLoopEnd
    \/ RipUnlock

SpecRip == RipInit /\ [][RipNext]_vars

----------------------------------------------------------------------------
(* main: one Ripper per device, their rips on a thread pool                *)
(* (src/ripper.py, lines 615-637).                                         *)

\* The number of devices process_disc_devices handed to main.
NDevices == 3

ParserIdle == mmkv = <<>> /\ fed = <<>> /\ escaped = NoExc

RipIdle ==
    /\ cfg = <<>> /\ env = <<>> /\ hw = <<>> /\ disc = <<>> /\ rip = <<>>
    /\ pc = "none" /\ ti = 0 /\ procs = <<>> /\ fs = <<>> /\ unlocks = 0
    /\ eject = <<>> /\ exc = [cls |-> "None", at |-> "none"]

SameID(id) == id

\* Ripper.ID += 1 (line 45), on the value loaded.
NextID(id) == id + 1

\* What each device will do: whether Disc(...) raises in Ripper.__init__,
\* and how its rip ends.  No Ripper exists yet (id -1), Ripper.ID is 0.
MainInit ==
    /\ ParserIdle /\ RipIdle
    /\ arg = <<>> /\ ret = <<>> /\ ct = <<>> /\ fds = 0
    /\ main = [pc |-> "load", i |-> 1, ID |-> 0, tmp |-> 0, exc |-> "None"]
    /\ jobs \in [1..NDevices -> [ctor : {"ok", "raise"}, outcome : {"ok", "raise"},
                                 id : {-1}, state : {"none"}]]

\* Line 45, first half: main reads Ripper.ID for the next device, or leaves
\* the construction loop after the last one.
MainLoadID ==
    /\ main.pc = "load"
    /\ main' = IF main.i > NDevices THEN [main EXCEPT !.pc = "result", !.i = 1]
               ELSE [main EXCEPT !.pc = "store", !.tmp = main.ID]
    /\ UNCHANGED <<parserVars, ripVars, arg, ret, ct, jobs, fds>>

\* Line 45, second half: main writes Ripper.ID.
MainStoreID ==
    /\ main.pc = "store"
    /\ main' = [main EXCEPT !.pc = "construct", !.ID = NextID(main.tmp)]
    /\ UNCHANGED <<parserVars, ripVars, arg, ret, ct, jobs, fds>>

\* Lines 46-124 and 633-634: the rest of Ripper.__init__ and the submit.  An
\* exception of the constructor leaves the for loop and the with block.
MainConstruct ==
    /\ main.pc = "construct"
    /\ IF jobs[main.i].ctor = "raise"
       THEN /\ main' = [main EXCEPT !.pc = "shutdown", !.exc = "ValueError"]
            /\ jobs' = jobs
       ELSE /\ main' = [main EXCEPT !.pc = "load", !.i = main.i + 1]
            /\ jobs' = [jobs EXCEPT ![main.i].id = main.ID, ![main.i].state = "pending"]
    /\ UNCHANGED <<parserVars, ripVars, arg, ret, ct, fds>>

\* A worker thread of the pool takes a submitted rip.
JobStart(d) ==
    /\ jobs[d].state = "pending"
    /\ jobs' = [jobs EXCEPT ![d].state = "running"]
    /\ UNCHANGED <<parserVars, ripVars, arg, ret, ct, main, fds>>

\* The rip returns or raises; the future keeps the outcome.
JobFinish(d) ==
    /\ jobs[d].state = "running"
    /\ jobs' = [jobs EXCEPT ![d].state = IF jobs[d].outcome = "ok" THEN "done" ELSE "raised"]
    /\ UNCHANGED <<parserVars, ripVars, arg, ret, ct, main, fds>>

\* Lines 636-637: future.result(thread_time_limit) on the next future: it
\* returns, re-raises the rip's exception, or times out on an unfinished rip.
MainResult ==
    /\ main.pc = "result"
    /\ IF main.i > NDevices THEN main' = [main EXCEPT !.pc = "shutdown"]
       ELSE \/ /\ jobs[main.i].state = "done"
               /\ main' = [main EXCEPT !.i = main.i + 1]
            \/ /\ jobs[main.i].state = "raised"
               /\ main' = [main EXCEPT !.pc = "shutdown", !.exc = "RipError"]
            \/ /\ jobs[main.i].state \in {"pending", "running"}
               /\ main' = [main EXCEPT !.pc = "shutdown", !.exc = "TimeoutError"]
    /\ UNCHANGED <<parserVars, ripVars, arg, ret, ct, jobs, fds>>

\* Line 619: the with block ends: shutdown(wait=True) returns once every
\* submitted rip is over.
MainShutdown ==
    /\ main.pc = "shutdown"
    /\ \A d \in 1..NDevices : jobs[d].state \in {"none", "done", "raised"}
    /\ main' = [main EXCEPT !.pc = "exited"]
    /\ UNCHANGED <<parserVars, ripVars, arg, ret, ct, jobs, fds>>

MainNext ==
    \/ MainLoadID
    \/ MainStoreID
    \/ MainConstruct
    \/ \E d \in 1..NDevices : JobStart(d)
    \/ \E d \in 1..NDevices : JobFinish(d)
    \/ MainResult
    \/ MainShutdown

SpecMain == MainInit /\ [][MainNext]_vars

----------------------------------------------------------------------------
(* main waiting for the rips (src/ripper.py, lines 616-637), with a clock. *)

\* thread_time_limit (line 616), in ticks of 9000 seconds, and the longest
\* rip looked at, in the same ticks.
thread_time_limit == 2
MaxRipTicks == 4

\* Every Ripper was built and its rip submitted when the clock read 0; the
\* pool has a worker for each (max_workers is at least 5), so every rip is
\* running.  length is the time the rip of a device takes.  main is about to
\* ask the first future for its result.
CeilingInit ==
    /\ ParserIdle /\ RipIdle
    /\ arg = <<>> /\ ret = <<>> /\ ct = <<>> /\ fds = 0
    /\ main = [pc |-> "result", i |-> 1, now |-> 0, since |-> 0, exc |-> "None",
               reported |-> {}, timedout |-> {}]
    /\ jobs \in [1..NDevices -> [length : 1..MaxRipTicks, state : {"running"}]]

\* Time passes while some rip runs and main has nothing to do but wait.  A
\* rip ends when its time is up.
CeilingTick ==
    /\ \E d \in 1..NDevices : jobs[d].state = "running"
    /\ \A d \in 1..NDevices : jobs[d].state = "running" => jobs[d].length > main.now
    /\ main.pc \in {"result", "shutdown"}
    /\ main.pc = "result" =>
          /\ main.i <= NDevices
          /\ jobs[main.i].state = "running"
          /\ main.now - main.since < thread_time_limit
    /\ main' = [main EXCEPT !.now = @ + 1]
    /\ UNCHANGED <<parserVars, ripVars, arg, ret, ct, jobs, fds>>

\* rip returns; its future is done.
CeilingJobFinish(d) ==
    /\ jobs[d].state = "running"
    /\ jobs[d].length = main.now
    /\ jobs' = [jobs EXCEPT ![d].state = "done"]
    /\ UNCHANGED <<parserVars, ripVars, arg, ret, ct, main, fds>>

\* Lines 636-637: future.result(thread_time_limit) on the next future.  The
\* wait is timed from the call: it returns as soon as the future is done and
\* raises TimeoutError, which leaves the loop, thread_time_limit after the
\* call began.
CeilingResult ==
    /\ main.pc = "result"
    /\ IF main.i > NDevices THEN main' = [main EXCEPT !.pc = "shutdown"]
       ELSE \/ /\ jobs[main.i].state = "done"
               /\ main' = [main EXCEPT !.i = main.i + 1, !.since = main.now,
                                        !.reported = @ \cup {main.i}]
            \/ /\ jobs[main.i].state = "running"
               /\ main.now - main.since >= thread_time_limit
               /\ main' = [main EXCEPT !.pc = "shutdown", !.exc = "TimeoutError",
                                        !.timedout = @ \cup {main.i}]
    /\ UNCHANGED <<parserVars, ripVars, arg, ret, ct, jobs, fds>>

\* Line 619: the with block ends once every rip is over.
CeilingShutdown ==
    /\ main.pc = "shutdown"
    /\ \A d \in 1..NDevices : jobs[d].state = "done"
    /\ main' = [main EXCEPT !.pc = "exited"]
    /\ UNCHANGED <<parserVars, ripVars, arg, ret, ct, jobs, fds>>

CeilingNext ==
    \/ CeilingTick
    \/ \E d \in 1..NDevices : CeilingJobFinish(d)
    \/ CeilingResult
    \/ CeilingShutdown

SpecCeiling == CeilingInit /\ [][CeilingNext]_vars

----------------------------------------------------------------------------
(* Ripper._process_video_rename on its own (src/ripper.py).                *)

\* The file makemkvcon was asked to write, and a file of no concern.
Extracted0 == [dir |-> "videos", name |-> <<"title_t00", ".mkv">>]
Stray == [dir |-> "media", name |-> <<"notes", ".txt">>]

\* A Ripper, the title just extracted, and the tree as rip has left it (the
\* media and videos directories exist): the extracted file is there or not,
\* and so is a file at the path it would be renamed to.
RenameInit ==
    /\ ParserIdle /\ RipIdle
    /\ \E c \in Configs, title_number \in {0, 1} :
          \E files \in SUBSET {Extracted0, NewFilename(c, Extracted0, title_number), Stray} :
             arg = [tree |-> [files |-> files, dirs |-> {"media", "videos"}, remuxed |-> {}],
                    c |-> c, filename |-> Extracted0, title_number |-> title_number]
    /\ ret = <<>> /\ ct = <<>> /\ main = <<>> /\ jobs = <<>> /\ fds = 0

CallRename ==
    /\ ret = <<>>
    /\ ret' = Rename(arg.tree, arg.c, arg.filename, arg.title_number)
    /\ UNCHANGED <<parserVars, ripVars, arg, ct, main, jobs, fds>>

SpecRename == RenameInit /\ [][CallRename]_vars

----------------------------------------------------------------------------
(* Two pipelines at the end of an extraction: rename, then a Container on  *)
(* the file, whose _get_chapters uses a chapter file (src/ripper.py, lines  *)
(* 389-393 and 126-162; src/container.py, lines 377-389 and 422-423).       *)

\* Line 379: Path("{}.chapters.xml".format(self.filename.name)), a relative
\* path: the name of the file without its directory, in the working
\* directory of the process.
ChapterPath(filename) == [dir |-> "cwd", name |-> filename.name \o <<".chapters.xml">>]

\* videos_directory is named after the device (line 124); the media and
\* season directories are those of the title.
DirOf(d, dir) == IF dir = "videos" THEN <<"videos", d>> ELSE <<dir>>

\* Both Rippers have the same title, year, season and media type and a remux
\* profile; makemkvcon wrote title_t00.mkv for each into its videos
\* directory; a file of an earlier run is at the rename target or not.
PipesInit ==
    /\ ParserIdle
    /\ env = <<>> /\ hw = <<>> /\ disc = <<>> /\ rip = <<>> /\ pc = "none" /\ ti = 0
    /\ procs = <<>> /\ unlocks = 0 /\ eject = <<>> /\ exc = [cls |-> "None", at |-> "none"]
    /\ cfg \in { c \in Configs : /\ c.remux_profile = "REMUX_ENGLISH_ONLY" /\ c.eject_on_rip
                                 /\ c.minimum_duration = 0 /\ c.maximum_duration = 3800 }
    /\ fs = [xml |-> {}]
    /\ jobs \in [1..2 -> [pc : {"rename"}, target_exists : BOOLEAN,
                          file : {Extracted0}, dir : {<<>>}, xml : {<<>>}, cls : {"None"}]]
    /\ arg = <<>> /\ ret = <<>> /\ ct = <<>> /\ main = <<>> /\ fds = 0

\* Line 390: _process_video_rename of the Ripper with id d.
PipeRename(d) ==
    /\ jobs[d].pc = "rename"
    /\ LET c == [cfg EXCEPT !.id = d]
           target == NewFilename(c, Extracted0, 0)
           tree == [files |-> {Extracted0} \cup (IF jobs[d].target_exists THEN {target} ELSE {}),
                    dirs |-> {"media", "videos"}, remuxed |-> {}]
           r == Rename(tree, c, Extracted0, 0)
       IN jobs' = [jobs EXCEPT ![d].pc = "extract", ![d].file = r.filename,
                               ![d].dir = DirOf(d, r.filename.dir)]
    /\ UNCHANGED <<parserVars, ripVars, arg, ret, ct, main, fds>>

\* Container(filename) at line 139: _get_chapters has mkvextract write the
\* chapter file (lines 379-388).
PipeExtractChapters(d) ==
    /\ jobs[d].pc = "extract"
    /\ jobs' = [jobs EXCEPT ![d].pc = "parse", ![d].xml = ChapterPath(jobs[d].file)]
    /\ fs' = [fs EXCEPT !.xml = @ \cup {ChapterPath(jobs[d].file)}]
    /\ UNCHANGED <<parserVars, cfg, env, hw, disc, rip, pc, ti, procs, unlocks, eject, exc,
                   arg, ret, ct, main, fds>>

\* Line 389: ET.parse of the chapter file, FileNotFoundError (caught) when it
\* is gone.
PipeParse(d) ==
    /\ jobs[d].pc = "parse"
    /\ jobs' = [jobs EXCEPT ![d].pc = "unlink",
                            ![d].cls = IF jobs[d].xml \in fs.xml THEN "None"
                                       ELSE "FileNotFoundError"]
    /\ UNCHANGED <<parserVars, ripVars, arg, ret, ct, main, fds>>

\* Lines 422-423: unlink(missing_ok=True).
PipeUnlink(d) ==
    /\ jobs[d].pc = "unlink"
    /\ jobs' = [jobs EXCEPT ![d].pc = "done"]
    /\ fs' = [fs EXCEPT !.xml = @ \ {jobs[d].xml}]
    /\ UNCHANGED <<parserVars, cfg, env, hw, disc, rip, pc, ti, procs, unlocks, eject, exc,
                   arg, ret, ct, main, fds>>

PipesNext ==
    \/ \E d \in 1..2 : PipeRename(d)
    \/ \E d \in 1..2 : PipeExtractChapters(d)
    \/ \E d \in 1..2 : PipeParse(d)
    \/ \E d \in 1..2 : PipeUnlink(d)

SpecPipes == PipesInit /\ [][PipesNext]_vars

----------------------------------------------------------------------------
(* process_disc_devices (src/ripper.py, lines 414-453).                    *)

\* The paths a user may supply, in the order pathlib sorts them.  /dev/sr0
\* and /dev/sr1 are drives, /dev/cdrom and /dev/dvd symbolic links to
\* /dev/sr0, /dev/x/../sr0 another spelling of /dev/sr0, /dev/tty no block
\* device; dvd and sr0 are relative.
Paths == <<"/dev/cdrom", "/dev/dvd", "/dev/sr0", "/dev/sr1", "/dev/tty", "/dev/x/../sr0",
           "dvd", "sr0">>

PathSet == {Paths[k] : k \in 1..Len(Paths)}

\* Path.is_absolute()
IsAbsolute(p) == p \notin {"dvd", "sr0"}

\* devices_root.joinpath(device.stem), with devices_root = /dev
Rooted(p) == IF p = "dvd" THEN "/dev/dvd" ELSE IF p = "sr0" THEN "/dev/sr0" ELSE p

\* Path.is_symlink()
IsSymlink(p) == p \in {"/dev/cdrom", "/dev/dvd"}

\* Path.resolve()
Resolve(p) == IF p \in {"/dev/cdrom", "/dev/dvd", "/dev/x/../sr0"} THEN "/dev/sr0" ELSE p

\* Path.is_block_device(), which follows symbolic links; the working
\* directory holds no device.
IsBlockDevice(p) == IsAbsolute(p) /\ Resolve(p) \in {"/dev/sr0", "/dev/sr1"}

\* list.sort() of paths, and list(set(...)) taken in that order.
SortPaths(S) == SelectSeq(Paths, LAMBDA p : p \in S)

Reverse(s) == [k \in 1..Len(s) |-> s[Len(s) + 1 - k]]

\* list.remove(x): the list without the first item equal to x.
RemoveFirst(s, x) ==
    LET k == CHOOSE k \in 1..Len(s) : s[k] = x /\ \A j \in 1..(k - 1) : s[j] # x
    IN SubSeq(s, 1, k - 1) \o SubSeq(s, k + 1, Len(s))

\* [x.resolve() for x in s].count(r)
CountResolved(s, r) == Cardinality({k \in 1..Len(s) : Resolve(s[k]) = r})

\* Lines 441-443, from the k-th item of the copy on.
RECURSIVE DropExtraLinks(_, _, _)
DropExtraLinks(symlinks, copy, k) ==
    IF k > Len(copy) THEN symlinks
    ELSE IF CountResolved(symlinks, Resolve(copy[k])) > 1
    THEN DropExtraLinks(RemoveFirst(symlinks, copy[k]), copy, k + 1)
    ELSE DropExtraLinks(symlinks, copy, k + 1)

\* Lines 447-449, from the k-th resolved link on: the direct links left and
\* whether list.remove raised ValueError.
RECURSIVE DropLinkedDirect(_, _, _)
DropLinkedDirect(direct_links, resolved, k) ==
    IF k > Len(resolved) THEN [list |-> direct_links, cls |-> "None"]
    ELSE IF CountResolved(direct_links, resolved[k]) = 0
    THEN DropLinkedDirect(direct_links, resolved, k + 1)
    ELSE IF \A j \in 1..Len(direct_links) : direct_links[j] # resolved[k]
    THEN [list |-> direct_links, cls |-> "ValueError"]
    ELSE DropLinkedDirect(RemoveFirst(direct_links, resolved[k]), resolved, k + 1)

process_disc_devices(devices) ==
    LET fixed == [k \in 1..Len(devices) |->
                    IF ~IsAbsolute(devices[k]) /\ IsBlockDevice(Rooted(devices[k]))
                    THEN Rooted(devices[k]) ELSE devices[k]]
        block == SelectSeq(fixed, IsBlockDevice)
        symlinks == SelectSeq(block, IsSymlink)
        direct == SortPaths({block[k] : k \in {j \in 1..Len(block) : ~IsSymlink(block[j])}})
        links == Reverse(DropExtraLinks(Reverse(symlinks), Reverse(symlinks), 1))
        rest == DropLinkedDirect(direct, [k \in 1..Len(links) |-> Resolve(links[k])], 1)
    IN IF rest.cls # "None" THEN [cls |-> rest.cls, value |-> <<>>]
       ELSE [cls |-> "None",
             value |-> SortPaths({links[k] : k \in 1..Len(links)}
                                 \cup {rest.list[k] : k \in 1..Len(rest.list)})]

\* The longest list of devices supplied.
MaxDevices == 3

DevicesInit ==
    /\ ParserIdle /\ RipIdle
    /\ arg \in UNION {[1..n -> PathSet] : n \in 0..MaxDevices}
    /\ ret = <<>> /\ ct = <<>> /\ main = <<>> /\ jobs = <<>> /\ fds = 0

\* Line 609: devices = process_disc_devices(devices)
CallProcessDiscDevices ==
    /\ ret = <<>>
    /\ ret' = process_disc_devices(arg)
    /\ UNCHANGED <<parserVars, ripVars, arg, ct, main, jobs, fds>>

SpecDevices == DevicesInit /\ [][CallProcessDiscDevices]_vars

----------------------------------------------------------------------------
(* Container (src/container.py).                                           *)

LANG_UND == "und"

\* list.sort() and sorted(): s in the stable ascending order of the keys,
\* key[i] being the key of s[i].
StableSort(s, key) ==
    LET pos(i) == 1 + Cardinality({j \in 1..Len(s) :
                        key[j] < key[i] \/ (key[j] = key[i] /\ j < i)})
    IN [k \in 1..Len(s) |-> s[CHOOSE i \in 1..Len(s) : pos(i) = k]]

\* [x for x in self.streams if x.language == language and x.type == type]
StreamsOf(streams, stream_type, language) ==
    SelectSeq(streams, LAMBDA x : x.type = stream_type /\ x.language = language)

UndWhenNoneMatches(streams, languages, stream_type) ==
    IF \E k \in 1..Len(languages) : languages[k] = LANG_UND THEN languages
    ELSE IF languages # <<>> /\ \A k \in 1..Len(languages) :
                                   StreamsOf(streams, stream_type, languages[k]) = <<>>
    THEN Append(languages, LANG_UND)
    ELSE languages

UndAlways(streams, languages, stream_type) ==
    IF \E k \in 1..Len(languages) : languages[k] = LANG_UND THEN languages
    ELSE Append(languages, LANG_UND)

\* Lines 470-496: the language list after the "und" fallback, for one type.
EffectiveLanguages(streams, languages, stream_type) ==
    IF \E k \in 1..Len(languages) : languages[k] = LANG_UND THEN languages
    ELSE IF \E k \in 1..Len(languages) : StreamsOf(streams, stream_type, languages[k]) = <<>>
    THEN Append(languages, LANG_UND)
    ELSE languages

\* Lines 504-529: the tracks the mkvmerge command asks for: every video
\* track; the audio tracks of the listed languages, or all of them without
\* --audio-tracks; the subtitle tracks of the listed languages, or none with
\* --no-subtitles.
SelectedTracks(streams, audio_languages, subtitle_languages) ==
    LET In(l, ls) == \E k \in 1..Len(ls) : ls[k] = l IN
    SelectSeq(streams, LAMBDA x :
        \/ x.type = "video"
        \/ x.type = "audio" /\ (audio_languages = <<>> \/ In(x.language, audio_languages))
        \/ x.type = "subtitles" /\ In(x.language, subtitle_languages))

FallBackAlways(streams, language, stream_type, default_required) ==
    LET matching == StreamsOf(streams, stream_type, language)
        pool == IF matching = <<>>
                THEN SelectSeq(streams, LAMBDA x : x.type = stream_type)
                ELSE matching
    IN IF stream_type = "subtitles"
       THEN StableSort(pool, [k \in 1..Len(pool) |-> -pool[k].frames])
       ELSE pool

FewestFramesFirst(streams, language, stream_type, default_required) ==
    LET matching == StreamsOf(streams, stream_type, language)
        pool == IF matching = <<>> /\ default_required
                THEN SelectSeq(streams, LAMBDA x : x.type = stream_type)
                ELSE matching
    IN IF stream_type = "subtitles"
       THEN StableSort(pool, [k \in 1..Len(pool) |-> pool[k].frames])
       ELSE pool

\* Lines 558-584: the candidates for the default stream, the one to set first.
DefaultCandidates(streams, language, stream_type, default_required) ==
    LET matching == StreamsOf(streams, stream_type, language)
        pool == IF matching = <<>> /\ default_required
                THEN SelectSeq(streams, LAMBDA x : x.type = stream_type)
                ELSE matching
    IN IF stream_type = "subtitles"
       THEN StableSort(pool, [k \in 1..Len(pool) |-> -pool[k].frames])
       ELSE pool

TouchingIsGap(chapters) ==
    LET s == StableSort(chapters, [k \in 1..Len(chapters) |-> chapters[k].start_time])
    IN \E k \in 2..Len(s) : s[k].start_time - s[k - 1].end_time >= 0

\* Container._detect_chapter_gaps
DetectChapterGaps(chapters) ==
    LET s == StableSort(chapters, [k \in 1..Len(chapters) |-> chapters[k].start_time])
    IN \E k \in 2..Len(s) : s[k].start_time - s[k - 1].end_time > 0

Stream(type, uid, language, default, frames) ==
    [type |-> type, uid |-> uid, language |-> language, default |-> default, frames |-> frames]

Chapter(start_time, end_time) == [start_time |-> start_time, end_time |-> end_time]

\* The audio tracks of a file, by language; the first one is the default.
AudioTracks ==
    { <<>>, <<"eng">>, <<"jpn">>, <<"und">>, <<"eng", "und">>, <<"eng", "jpn">> }

\* The subtitle tracks of a file.
SubtitleTracks ==
    { <<>>,
      << Stream("subtitles", 21, "eng", FALSE, 5), Stream("subtitles", 22, "eng", FALSE, 500),
         Stream("subtitles", 23, "eng", FALSE, 50) >>,
      << Stream("subtitles", 21, "eng", TRUE, 5), Stream("subtitles", 22, "jpn", FALSE, 50),
         Stream("subtitles", 23, "eng", FALSE, 50), Stream("subtitles", 24, "eng", FALSE, 50) >>,
      << Stream("subtitles", 21, "jpn", TRUE, 500), Stream("subtitles", 22, "jpn", FALSE, 5) >>,
      << Stream("subtitles", 21, "eng", FALSE, 50), Stream("subtitles", 22, "und", FALSE, 500) >> }

\* The chapters of a file, as _get_chapters leaves them: sorted by start time.
ChapterLists ==
    { <<>>,
      <<Chapter(0, 10), Chapter(10, 20)>>,
      <<Chapter(0, 10), Chapter(5, 20)>>,
      <<Chapter(0, 20), Chapter(5, 10), Chapter(15, 30)>>,
      <<Chapter(0, 10), Chapter(10, 20), Chapter(25, 30)>> }

\* The language lists callers pass.
LanguageLists == { <<>>, <<"eng">>, <<"jpn">>, <<"eng", "jpn">>, <<"jpn", "und">> }

\* Container.__init__ on a file with these tracks and chapters.
ContainerInit ==
    /\ ParserIdle /\ RipIdle
    /\ \E audio \in AudioTracks, subtitles \in SubtitleTracks, chapters \in ChapterLists :
          ct = [streams |-> <<Stream("video", 1, "und", TRUE, 0)>>
                            \o [k \in 1..Len(audio) |-> Stream("audio", 10 + k, audio[k], k = 1, 0)]
                            \o subtitles,
                chapters |-> chapters]
    /\ arg = <<>> /\ ret = <<>> /\ main = <<>> /\ jobs = <<>> /\ fds = 0

\* Container.remux_by_language; mkvmerge succeeds or fails.
RemuxByLanguage ==
    \E audio_languages \in LanguageLists, subtitle_languages \in LanguageLists, ok \in BOOLEAN :
       LET audio == EffectiveLanguages(ct.streams, audio_languages, "audio")
           subtitles == EffectiveLanguages(ct.streams, subtitle_languages, "subtitles") IN
       /\ arg' = [op |-> "remux_by_language", audio_languages |-> audio_languages,
                  subtitle_languages |-> subtitle_languages]
       /\ ret' = [cls |-> IF ok THEN "None" ELSE "CalledProcessError",
                  audio_languages |-> audio, subtitle_languages |-> subtitles]
       /\ ct' = IF ok THEN [ct EXCEPT !.streams = SelectedTracks(@, audio, subtitles)] ELSE ct
       /\ UNCHANGED <<parserVars, ripVars, main, jobs, fds>>

\* Container._set_default_stream_by_language.  mkvpropedit is not on PATH
\* (check_command raises FileNotFoundError inside the try block, and the
\* finally clause reloads before it leaves the call), or it runs and succeeds
\* or fails (CalledProcessError is caught).  edits counts the mkvpropedit
\* commands run, reloads the calls of self.reload.
SetDefaultStreamByLanguage ==
    \E language \in {"eng", "jpn"}, stream_type \in {"audio", "subtitles"},
       default_required \in BOOLEAN, run \in {"ok", "fail", "missing"} :
       LET streams == DefaultCandidates(ct.streams, language, stream_type, default_required)
           ok == run = "ok"
       IN
       /\ arg' = [op |-> "_set_default_stream_by_language", language |-> language,
                  stream_type |-> stream_type, default_required |-> default_required]
       /\ IF streams = <<>>
          THEN ret' = [cls |-> "None", uid |-> -1, set |-> FALSE, edits |-> 0, reloads |-> 0]
               /\ ct' = ct
          ELSE IF streams[1].default
          THEN ret' = [cls |-> "None", uid |-> streams[1].uid, set |-> FALSE,
                       edits |-> 0, reloads |-> 0]
               /\ ct' = ct
          ELSE /\ ret' = [cls |-> IF run = "missing" THEN "FileNotFoundError" ELSE "None",
                          uid |-> streams[1].uid, set |-> ok,
                          edits |-> IF run = "missing" THEN 0 ELSE 1, reloads |-> 1]
               /\ ct' = IF ~ok THEN ct
                        ELSE [ct EXCEPT !.streams =
                                [k \in 1..Len(@) |-> IF @[k].uid = streams[1].uid
                                                     THEN [@[k] EXCEPT !.default = TRUE]
                                                     ELSE @[k]]]
       /\ UNCHANGED <<parserVars, ripVars, main, jobs, fds>>

\* Container._detect_chapter_gaps
CallDetectChapterGaps ==
    /\ arg' = [op |-> "_detect_chapter_gaps"]
    /\ ret' = [cls |-> "None", value |-> DetectChapterGaps(ct.chapters)]
    /\ UNCHANGED <<parserVars, ripVars, ct, main, jobs, fds>>

ContainerNext ==
    \/ RemuxByLanguage
    \/ SetDefaultStreamByLanguage
    \/ CallDetectChapterGaps

SpecContainer == ContainerInit /\ [][ContainerNext]_vars

----------------------------------------------------------------------------
(* Ripper._process_video_remux on a file (src/ripper.py, lines 126-200).   *)

\* _set_default_stream_by_language: the streams after the reload.
DefaultSet(streams, language, stream_type, default_required, ok) ==
    LET cand == DefaultCandidates(streams, language, stream_type, default_required) IN
    IF cand = <<>> THEN streams
    ELSE IF cand[1].default \/ ~ok THEN streams
    ELSE [k \in 1..Len(streams) |-> IF streams[k].uid = cand[1].uid
                                    THEN [streams[k] EXCEPT !.default = TRUE]
                                    ELSE streams[k]]

\* clear_default_subtitles: flag-default=0 on the first default stream of the
\* type, then break.
DefaultCleared(streams, stream_type, ok) ==
    LET flagged == { k \in 1..Len(streams) : streams[k].type = stream_type /\ streams[k].default }
    IN IF flagged = {} \/ ~ok THEN streams
       ELSE LET first == CHOOSE k \in flagged : \A j \in flagged : k <= j IN
            [streams EXCEPT ![first].default = FALSE]

\* The arguments _process_video_remux_profile passes for each profile but
\* REMUX_NONE (lines 164-200); "" is no preferred subtitle language.
RemuxProfiles ==
    { [name |-> "REMUX_ENGLISH_ONLY", audio_languages |-> <<"eng">>,
       subtitle_languages |-> <<"eng">>, preferred_audio_language |-> "eng",
       preferred_subtitle_language |-> ""],
      [name |-> "REMUX_JAPANESE_ONLY", audio_languages |-> <<"jpn">>,
       subtitle_languages |-> <<"jpn">>, preferred_audio_language |-> "jpn",
       preferred_subtitle_language |-> ""],
      [name |-> "REMUX_ANIME_DUBS", audio_languages |-> <<"eng", "jpn">>,
       subtitle_languages |-> <<"eng", "jpn">>, preferred_audio_language |-> "eng",
       preferred_subtitle_language |-> ""],
      [name |-> "REMUX_ANIME_SUBS", audio_languages |-> <<"eng", "jpn">>,
       subtitle_languages |-> <<"eng", "jpn">>, preferred_audio_language |-> "jpn",
       preferred_subtitle_language |-> "eng"] }

\* _process_video_remux: remux_by_language, set_preferred_audio_by_language
\* (default_required is True), then set_preferred_subtitles_by_language or
\* clear_default_subtitles.  A failing mkvmerge raises; a failing mkvpropedit
\* is logged.
ProcessVideoRemux(streams, p, merged, audio_set, subtitles_set) ==
    LET s1 == SelectedTracks(streams,
                  EffectiveLanguages(streams, p.audio_languages, "audio"),
                  EffectiveLanguages(streams, p.subtitle_languages, "subtitles"))
        s2 == DefaultSet(s1, p.preferred_audio_language, "audio", TRUE, audio_set)
        s3 == IF p.preferred_subtitle_language # ""
              THEN DefaultSet(s2, p.preferred_subtitle_language, "subtitles", FALSE,
                              subtitles_set)
              ELSE DefaultCleared(s2, "subtitles", subtitles_set)
    IN IF ~merged THEN [cls |-> "CalledProcessError", streams |-> streams]
       ELSE [cls |-> "None", streams |-> s3]

\* A file with its audio and subtitle tracks, and no call yet.
RemuxProfileInit ==
    /\ ParserIdle /\ RipIdle
    /\ \E audio \in AudioTracks, subtitles \in SubtitleTracks :
          ct = [streams |-> <<Stream("video", 1, "und", TRUE, 0)>>
                            \o [k \in 1..Len(audio) |-> Stream("audio", 10 + k, audio[k], k = 1, 0)]
                            \o subtitles,
                chapters |-> <<>>]
    /\ arg = <<>> /\ ret = <<>> /\ main = <<>> /\ jobs = <<>> /\ fds = 0

CallProcessVideoRemux ==
    /\ ret = <<>>
    /\ \E p \in RemuxProfiles, merged \in BOOLEAN, audio_set \in BOOLEAN, subtitles_set \in BOOLEAN :
          LET r == ProcessVideoRemux(ct.streams, p, merged, audio_set, subtitles_set) IN
          /\ arg' = [profile |-> p, before |-> ct.streams]
          /\ ret' = [cls |-> r.cls, commands_ok |-> merged /\ audio_set /\ subtitles_set]
          /\ ct' = [ct EXCEPT !.streams = r.streams]
    /\ UNCHANGED <<parserVars, ripVars, main, jobs, fds>>

SpecRemuxProfile == RemuxProfileInit /\ [][CallProcessVideoRemux]_vars

----------------------------------------------------------------------------
(* The file operations of Container.remux_by_language, one step per        *)
(* command or system call (src/container.py, lines 498-548).               *)

\* The container of a file, its path holding the original content, and no
\* output of an earlier remux; the call is about to start.
ReplaceInit ==
    /\ ParserIdle
    /\ cfg = <<>> /\ env = <<>> /\ hw = <<>> /\ disc = <<>> /\ rip = <<>>
    /\ ti = 0 /\ procs = <<>> /\ unlocks = 0 /\ eject = <<>>
    /\ exc = [cls |-> "None", at |-> "none"]
    /\ pc = "remux"
    /\ fs \in [original : {"original"}, output : {"absent", "stale"}]
    /\ \E audio \in AudioTracks, subtitles \in SubtitleTracks :
          ct = [streams |-> <<Stream("video", 1, "und", TRUE, 0)>>
                            \o [k \in 1..Len(audio) |-> Stream("audio", 10 + k, audio[k], k = 1, 0)]
                            \o subtitles,
                chapters |-> <<>>]
    /\ arg \in [op : {"remux_by_language"}, audio_languages : LanguageLists,
                subtitle_languages : LanguageLists]
    /\ ret = <<>> /\ main = <<>> /\ jobs = <<>> /\ fds = 0

ReplaceUnchanged ==
    UNCHANGED <<parserVars, cfg, env, hw, disc, rip, ti, procs, unlocks, eject, exc, arg,
                main, jobs, fds>>

\* Lines 470-541: the language lists, then mkvmerge -o <stem>.remuxed.  It
\* writes the output and exits 0, or check_call raises CalledProcessError.
ReplaceRunMkvmerge ==
    /\ pc = "remux"
    /\ \E ok \in BOOLEAN, written \in BOOLEAN :
          /\ ret' = [cls |-> IF ok THEN "None" ELSE "CalledProcessError",
                     audio_languages |-> EffectiveLanguages(ct.streams, arg.audio_languages, "audio"),
                     subtitle_languages |->
                         EffectiveLanguages(ct.streams, arg.subtitle_languages, "subtitles")]
          /\ fs' = IF ok THEN [fs EXCEPT !.output = "remuxed"]
                   ELSE IF written THEN [fs EXCEPT !.output = "partial"] ELSE fs
          /\ pc' = IF ok THEN "unlink" ELSE "raised"
    /\ UNCHANGED ct /\ ReplaceUnchanged

\* Line 546: self.filename.unlink(missing_ok=False)
ReplaceUnlink ==
    /\ pc = "unlink"
    /\ fs' = [fs EXCEPT !.original = "absent"]
    /\ pc' = "rename"
    /\ UNCHANGED <<ct, ret>> /\ ReplaceUnchanged

\* Lines 547-548: output_filename.rename(self.filename.resolve()), reload.
ReplaceRename ==
    /\ pc = "rename"
    /\ fs' = [original |-> fs.output, output |-> "absent"]
    /\ ct' = [ct EXCEPT !.streams = SelectedTracks(@, ret.audio_languages, ret.subtitle_languages)]
    /\ pc' = "done"
    /\ UNCHANGED ret /\ ReplaceUnchanged

ReplaceNext ==
    \/ ReplaceRunMkvmerge
    \/ ReplaceUnlink
    \/ ReplaceRename

SpecReplace == ReplaceInit /\ [][ReplaceNext]_vars

----------------------------------------------------------------------------
(* Container._get_chapters (src/container.py, lines 373-423).              *)

PyFloat(v) == [type |-> "float", value |-> v]

\* A child element of a ChapterAtom: absent, or its text split at ":".
NoChild == [present |-> FALSE, text |-> <<>>]
Child(text) == [present |-> TRUE, text |-> text]

\* hours, minutes, seconds = map(float, child.text.split(":")), then
\* seconds += hours * 3600 + minutes * 60 (lines 400-401, 404-405).  The
\* attribute of a ChapterData stays None when the element is absent.
TimeOf(child) ==
    IF ~child.present THEN [cls |-> "None", value |-> PyNone]
    ELSE IF Len(child.text) # 3 THEN [cls |-> "ValueError", value |-> PyNone]
    ELSE [cls |-> "None",
          value |-> PyFloat(child.text[3] + child.text[1] * 3600 + child.text[2] * 60)]

\* ChapterData.is_valid
ChapterIsValid(start_time, end_time, duration) ==
    start_time.type = "float" /\ end_time.type = "float" /\ duration.type = "float"

\* Lines 393-411, one ChapterAtom: the exception it ends with, whether the
\* chapter is kept, and the chapter.  end_time - start_time raises TypeError
\* when either is None.
ReadAtom(atom) ==
    LET s == TimeOf(atom.start)
        e == TimeOf(atom.end)
    IN IF s.cls # "None" THEN [cls |-> s.cls, keep |-> FALSE, chapter |-> <<>>]
       ELSE IF e.cls # "None" THEN [cls |-> e.cls, keep |-> FALSE, chapter |-> <<>>]
       ELSE IF s.value.type # "float" \/ e.value.type # "float"
       THEN [cls |-> "TypeError", keep |-> FALSE, chapter |-> <<>>]
       ELSE [cls |-> "None",
             keep |-> ChapterIsValid(s.value, e.value, PyFloat(e.value.value - s.value.value)),
             chapter |-> Chapter(s.value.value, e.value.value)]

\* Lines 391-412: the loop over the atoms and chapters.sort().
RECURSIVE ReadAtoms(_, _)
ReadAtoms(atoms, chapters) ==
    IF atoms = <<>>
    THEN [cls |-> "None",
          chapters |-> StableSort(chapters, [k \in 1..Len(chapters) |-> chapters[k].start_time])]
    ELSE LET r == ReadAtom(Head(atoms)) IN
         IF r.cls # "None" THEN [cls |-> r.cls, chapters |-> <<>>]
         ELSE ReadAtoms(Tail(atoms), IF r.keep THEN Append(chapters, r.chapter) ELSE chapters)

\* _get_chapters: the exception that leaves it (and whether the try block or
\* the finally clause raised it), self.chapters and the chapter-XML file
\* afterwards.  a.atoms and a.parsable describe the file ET.parse reads.
GetChapters(a, chapters, xml) ==
    LET exists == a.written \/ xml # "absent"
        read == ReadAtoms(a.atoms, <<>>)
        Out(cls, at, chs, file) == [cls |-> cls, at |-> at, chapters |-> chs, xml |-> file]
    IN IF ~a.mkvextract THEN Out("UnboundLocalError", "finally", chapters, xml)
       ELSE IF a.code # 0 THEN Out("None", "none", chapters, "absent")
       ELSE IF ~exists THEN Out("None", "none", chapters, "absent")
       ELSE IF ~a.parsable THEN Out("ParseError", "try", chapters, "absent")
       ELSE IF read.cls # "None" THEN Out(read.cls, "try", chapters, "absent")
       ELSE Out("None", "none", read.chapters, "absent")

MaxAtoms == 2

ChapterAtoms ==
    [start : {NoChild, Child(<<0, 0, 0>>), Child(<<0, 1, 0>>), Child(<<1, 0>>)},
     end : {NoChild, Child(<<0, 0, 30>>), Child(<<1, 0, 0>>)}]

AtomLists == UNION { [1..n -> ChapterAtoms] : n \in 0..MaxAtoms }

\* A Container being loaded: whether mkvextract is on PATH, how it exits,
\* whether it writes the chapter file, what the file holds, and whether a
\* file of that name was there before.
ChaptersInit ==
    /\ ParserIdle
    /\ cfg = <<>> /\ env = <<>> /\ hw = <<>> /\ disc = <<>> /\ rip = <<>>
    /\ ti = 0 /\ procs = <<>> /\ unlocks = 0 /\ eject = <<>>
    /\ exc = [cls |-> "None", at |-> "none"] /\ pc = "none"
    /\ fs \in [xml : {"absent", "stale"}]
    /\ ct = [streams |-> <<>>, chapters |-> <<>>]
    /\ arg \in [mkvextract : BOOLEAN, code : {0, 1}, written : BOOLEAN, parsable : BOOLEAN,
                atoms : AtomLists]
    /\ (arg.code # 0 \/ ~arg.mkvextract) => ~arg.written
    /\ ret = <<>> /\ main = <<>> /\ jobs = <<>> /\ fds = 0

CallGetChapters ==
    /\ ret = <<>>
    /\ LET r == GetChapters(arg, ct.chapters, fs.xml) IN
       /\ ret' = [cls |-> r.cls, at |-> r.at]
       /\ ct' = [ct EXCEPT !.chapters = r.chapters]
       /\ fs' = [fs EXCEPT !.xml = r.xml]
    /\ UNCHANGED <<parserVars, cfg, env, hw, disc, rip, pc, ti, procs, unlocks, eject, exc,
                   arg, main, jobs, fds>>

SpecChapters == ChaptersInit /\ [][CallGetChapters]_vars

----------------------------------------------------------------------------
(* Disc on its own (src/disc.py).                                          *)

\* fd_command on the device node: open() fails on a missing node and the
\* ioctl fails on a node that is not a CD-ROM drive.
IoctlError(h) ==
    IF ~h.exists THEN "FileNotFoundError" ELSE IF ~h.cdrom THEN "OSError" ELSE "None"

\* fd_command: the descriptors it leaves open.  os.close runs only when
\* fcntl.ioctl returned; os.open that raised opened none.
LeftOpen(cls) == IF cls = "OSError" THEN 1 ELSE 0

\* Disc.get_drive_status
get_drive_status(h) ==
    IF IoctlError(h) # "None" THEN [cls |-> IoctlError(h), value |-> -1]
    ELSE IF h.drive_status \in DriveStatusCodes THEN [cls |-> "None", value |-> h.drive_status]
    ELSE [cls |-> "ValueError", value |-> -1]

\* Disc.get_disc_status
get_disc_status(h) ==
    IF IoctlError(h) # "None" THEN [cls |-> IoctlError(h), value |-> -1]
    ELSE IF h.disc_status \in DiscStatusCodes THEN [cls |-> "None", value |-> h.disc_status]
    ELSE [cls |-> "ValueError", value |-> -1]

\* The codes a drive answers the two ioctls with: the codes of cdrom.h and
\* two it does not define.
DriveAnswers == 0..5
DiscAnswers == 0..5 \cup 100..106

DiscDevices ==
    [exists : {TRUE}, cdrom : {TRUE}, drive_status : DriveAnswers, disc_status : DiscAnswers]
    \cup { [exists |-> TRUE, cdrom |-> FALSE, drive_status |-> 0, disc_status |-> 0],
           [exists |-> FALSE, cdrom |-> FALSE, drive_status |-> 0, disc_status |-> 0] }

\* Disc.__init__ returned: its query() did not raise.
DiscInit ==
    /\ ParserIdle
    /\ cfg = <<>> /\ env = <<>> /\ rip = <<>> /\ pc = "none" /\ ti = 0 /\ procs = <<>>
    /\ fs = <<>> /\ unlocks = 0 /\ eject = <<>> /\ exc = [cls |-> "None", at |-> "none"]
    /\ hw \in DiscDevices
    /\ Query(DefaultDisc, hw).cls = "None"
    /\ disc = Query(DefaultDisc, hw).d
    /\ RestIdle

DiscUnchanged ==
    UNCHANGED <<parserVars, cfg, env, rip, pc, ti, procs, fs, unlocks, eject, exc, ct, main, jobs>>

MaxLeaks == 1

CallGetDriveStatus ==
    /\ fds + LeftOpen(IoctlError(hw)) <= MaxLeaks
    /\ arg' = [op |-> "get_drive_status"]
    /\ ret' = get_drive_status(hw)
    /\ fds' = fds + LeftOpen(IoctlError(hw))
    /\ UNCHANGED <<hw, disc>> /\ DiscUnchanged

CallGetDiscStatus ==
    /\ fds + LeftOpen(IoctlError(hw)) <= MaxLeaks
    /\ arg' = [op |-> "get_disc_status"]
    /\ ret' = get_disc_status(hw)
    /\ fds' = fds + LeftOpen(IoctlError(hw))
    /\ UNCHANGED <<hw, disc>> /\ DiscUnchanged

\* Disc.query: the two status calls are made on a valid device only, where
\* the ioctl is answered.
CallQuery ==
    /\ arg' = [op |-> "query"]
    /\ disc' = Query(disc, hw).d
    /\ ret' = [cls |-> Query(disc, hw).cls, value |-> -1]
    /\ UNCHANGED <<hw, fds>> /\ DiscUnchanged

\* Disc.eject_tray, close_tray, unlock_tray, lock_tray: the drive carries
\* the request out (status 0) or rejects it, for instance while it is busy.
CallTrayCommand ==
    \E command \in {"eject_tray", "close_tray", "unlock_tray", "lock_tray"},
       rejected \in BOOLEAN :
       LET cls == IF IoctlError(hw) # "None" THEN IoctlError(hw)
                  ELSE IF rejected THEN "OSError" ELSE "None" IN
       /\ fds + LeftOpen(cls) <= MaxLeaks
       /\ arg' = [op |-> command]
       /\ ret' = [cls |-> cls, value |-> IF cls = "None" THEN 0 ELSE -1]
       /\ fds' = fds + LeftOpen(cls)
       /\ UNCHANGED <<hw, disc>> /\ DiscUnchanged

\* The drive is opened, loaded, unplugged or answers something else.
DriveChanges ==
    /\ hw' \in DiscDevices
    /\ \/ hw'.drive_status = hw.drive_status
       \/ hw'.disc_status = hw.disc_status
    /\ UNCHANGED <<arg, ret, disc, fds>> /\ DiscUnchanged

DiscNext ==
    \/ CallGetDriveStatus
    \/ CallGetDiscStatus
    \/ CallQuery
    \/ CallTrayCommand
    \/ DriveChanges

SpecDisc == DiscInit /\ [][DiscNext]_vars

----------------------------------------------------------------------------
(* Ripper._eject, one round of its loop per step (src/ripper.py).         *)

\* The time limit handed to _eject, and the time one round of the loop takes
\* (three ioctl calls), in ticks of the clock time.time() reads.
MaxTimeLimit == 2
MaxRoundTicks == 2

TrueWhenLate(status, now, timeout) ==
    IF status = CDS_TRAY_OPEN \/ now > timeout THEN "True" ELSE "again"

\* Lines 265-268: the test after the poll.  "again" is the next round.
EjectTest(status, now, timeout) ==
    IF status = CDS_TRAY_OPEN THEN "True"
    ELSE IF now > timeout THEN "False"
    ELSE "again"

EjectDevices == { h \in DiscDevices : h.cdrom => h.disc_status = CDS_DATA_1 }

\* Line 261: timeout = time.time() + time_limit, the clock reading 0.
EjectInit ==
    /\ ParserIdle
    /\ cfg = <<>> /\ env = <<>> /\ disc = <<>> /\ rip = <<>> /\ pc = "none" /\ ti = 0
    /\ procs = <<>> /\ fs = <<>> /\ unlocks = 0 /\ exc = [cls |-> "None", at |-> "none"]
    /\ hw \in EjectDevices
    /\ \E time_limit \in 0..MaxTimeLimit :
          eject = [pc |-> "loop", now |-> 0, timeout |-> 0 + time_limit, attempts |-> 0,
                   last |-> -1, result |-> "None", cls |-> "None"]
    /\ arg = <<>> /\ ret = <<>> /\ ct = <<>> /\ main = <<>> /\ jobs = <<>> /\ fds = 0

\* Lines 262-268, one round: unlock_tray, eject_tray, get_drive_status, the
\* test.  Either ioctl raises on a missing node or a node that is no CD-ROM
\* drive, and when the driver rejects the command; the tray opens or does
\* not; the poll raises ValueError on an unknown code.
EjectAttempt ==
    /\ eject.pc = "loop"
    /\ \E rejected \in BOOLEAN, opens \in BOOLEAN, d \in 1..MaxRoundTicks :
          LET err == IF IoctlError(hw) # "None" THEN IoctlError(hw)
                     ELSE IF rejected THEN "OSError" ELSE "None"
              h2 == IF opens THEN [hw EXCEPT !.drive_status = CDS_TRAY_OPEN] ELSE hw
              st == get_drive_status(h2)
              now2 == eject.now + d
              r == EjectTest(st.value, now2, eject.timeout)
          IN
          IF err # "None"
          THEN /\ eject' = [eject EXCEPT !.pc = "raised", !.cls = err, !.now = now2,
                                           !.attempts = @ + 1]
               /\ fds' = fds + LeftOpen(err)
               /\ hw' = hw
          ELSE /\ hw' = h2
               /\ fds' = fds
               /\ IF st.cls # "None"
                  THEN eject' = [eject EXCEPT !.pc = "raised", !.cls = st.cls, !.now = now2,
                                               !.attempts = @ + 1]
                  ELSE eject' = [eject EXCEPT !.pc = IF r = "again" THEN "loop" ELSE "returned",
                                               !.result = IF r = "again" THEN "None" ELSE r,
                                               !.now = now2, !.last = st.value,
                                               !.attempts = @ + 1]
    /\ unlocks' = unlocks + 1
    /\ UNCHANGED <<parserVars, cfg, env, disc, rip, pc, ti, procs, fs, exc,
                   arg, ret, ct, main, jobs>>

\* A round that has begun is carried out: the thread running _eject is not
\* stopped, and the clock moves on while it runs.
SpecEject == EjectInit /\ [][EjectAttempt]_vars /\ WF_vars(EjectAttempt)

----------------------------------------------------------------------------
(* Ripper.__init__ (src/ripper.py).                                        *)

MediaTypes == {"VIDEO", "MOVIE", "SHOW"}

NoRipper(cls, io) == [cls |-> cls, io |-> io, self |-> <<>>]

\* Ripper.__init__ with Ripper.ID at a.ID: the exception raised, whether
\* Disc(...) was reached (it queries the device), and the object built.
RipperInit(a) ==
    IF a.title = <<>> THEN NoRipper("ValueError", FALSE)
    ELSE IF ~a.root_exists THEN NoRipper("FileNotFoundError", FALSE)
    ELSE IF a.season.type = "int" /\ a.season.value < 0 THEN NoRipper("ValueError", FALSE)
    ELSE IF a.media_type \notin MediaTypes THEN NoRipper("ValueError", FALSE)
    ELSE IF a.minimum_duration >= a.maximum_duration THEN NoRipper("ValueError", FALSE)
    ELSE LET q == Query(DefaultDisc, a.hw) IN
         IF q.cls # "None" THEN NoRipper(q.cls, TRUE)
         ELSE [cls |-> "None", io |-> TRUE,
               self |-> [id |-> NextID(a.ID), disc |-> q.d, title |-> strip(a.title),
                         season |-> a.season, media_type |-> a.media_type,
                         minimum_duration |-> a.minimum_duration,
                         maximum_duration |-> a.maximum_duration]]

\* The arguments main or another caller passes.
RipperArgs ==
    [ ID : {0},
      title : {<<>>, <<" ">>, <<"Movie">>, <<" ", "Movie", "\n">>},
      root_exists : BOOLEAN,
      season : {PyNone, PyInt(-1), PyInt(0), PyInt(2)},
      media_type : MediaTypes \cup {"MUSIC"},
      minimum_duration : {0, 60},
      maximum_duration : {60, 999999},
      hw : Devices ]

RipperInitInit ==
    /\ ParserIdle /\ RipIdle
    /\ arg \in RipperArgs
    /\ ret = <<>> /\ ct = <<>> /\ main = <<>> /\ jobs = <<>> /\ fds = 0

CallRipperInit ==
    /\ ret = <<>>
    /\ ret' = RipperInit(arg)
    /\ UNCHANGED <<parserVars, ripVars, arg, ct, main, jobs, fds>>

SpecRipperInit == RipperInitInit /\ [][CallRipperInit]_vars

----------------------------------------------------------------------------
(* Disc.query_all_drives and the order of handles (src/disc.py).           *)

\* The block devices of the device directory, in the order of their paths:
\* two symbolic links and two drives.
DeviceDirectory ==
    << [filename |-> "/dev/cdrom", symlink |-> TRUE], [filename |-> "/dev/sr0", symlink |-> FALSE],
       [filename |-> "/dev/sr1", symlink |-> FALSE], [filename |-> "/dev/ubd", symlink |-> TRUE] >>

\* Path.__lt__ on the paths of the directory.
PathLt(p, q) ==
    \E j, k \in 1..Len(DeviceDirectory) :
       j < k /\ DeviceDirectory[j].filename = p /\ DeviceDirectory[k].filename = q

\* Disc.__lt__
DiscLt(a, b) ==
    IF a.symlink /\ b.symlink THEN PathLt(a.filename, b.filename)
    ELSE IF a.symlink THEN TRUE
    ELSE PathLt(a.filename, b.filename)

\* Disc.__gt__
DiscGt(a, b) ==
    IF a.symlink /\ b.symlink THEN PathLt(b.filename, a.filename)
    ELSE IF a.symlink THEN TRUE
    ELSE PathLt(b.filename, a.filename)

\* Disc.__eq__
DiscEq(a, b) ==
    IF a.symlink /\ b.symlink THEN a.filename = b.filename
    ELSE IF a.symlink THEN TRUE
    ELSE a.filename = b.filename

\* list.sort() on a short list: the first run is found with __lt__ (and
\* reversed when it descends), then the rest is inserted by binary search.
RECURSIVE RunEnd(_, _, _)
RunEnd(s, k, descending) ==
    IF k >= Len(s) \/ DiscLt(s[k + 1], s[k]) # descending THEN k
    ELSE RunEnd(s, k + 1, descending)

RECURSIVE BinaryPlace(_, _, _, _)
BinaryPlace(s, pivot, l, r) ==
    IF l >= r THEN l
    ELSE LET m == l + (r - l) \div 2 IN
         IF DiscLt(pivot, s[m + 1]) THEN BinaryPlace(s, pivot, l, m)
         ELSE BinaryPlace(s, pivot, m + 1, r)

RECURSIVE InsertFrom(_, _)
InsertFrom(s, k) ==
    IF k > Len(s) THEN s
    ELSE LET at == BinaryPlace(s, s[k], 0, k - 1) IN
         InsertFrom(SubSeq(s, 1, at) \o <<s[k]>> \o SubSeq(s, at + 1, k - 1)
                    \o SubSeq(s, k + 1, Len(s)), k + 1)

SortDiscs(s) ==
    IF Len(s) < 2 THEN s
    ELSE LET descending == DiscLt(s[2], s[1])
             n == RunEnd(s, 2, descending)
             run == SubSeq(s, 1, n)
             first == IF descending THEN [k \in 1..n |-> run[n + 1 - k]] ELSE run
         IN InsertFrom(first \o SubSeq(s, n + 1, Len(s)), n + 1)

\* Disc.query_all_drives on a directory iterated in the order listed; every
\* drive answers with codes the queries accept, so every handle is valid.
query_all_drives(listed, only_symbolic_links, blacklist) ==
    SortDiscs(SelectSeq(listed, LAMBDA d :
        /\ only_symbolic_links => d.symlink
        /\ d.filename \notin blacklist))

MaxListed == 3

\* The orders in which iterdir() can list up to MaxListed of the devices.
Listings ==
    { s \in UNION { [1..n -> {DeviceDirectory[k] : k \in 1..Len(DeviceDirectory)}] :
                    n \in 0..MaxListed } :
        \A j, k \in 1..Len(s) : s[j] = s[k] => j = k }

DrivesInit ==
    /\ ParserIdle /\ RipIdle
    /\ arg \in [listed : Listings, only_symbolic_links : BOOLEAN,
                blacklist : {{}, {"/dev/sr1"}}]
    /\ ret = <<>> /\ ct = <<>> /\ main = <<>> /\ jobs = <<>> /\ fds = 0

CallQueryAllDrives ==
    /\ ret = <<>>
    /\ ret' = [value |-> query_all_drives(arg.listed, arg.only_symbolic_links, arg.blacklist)]
    /\ UNCHANGED <<parserVars, ripVars, arg, ct, main, jobs, fds>>

SpecDrives == DrivesInit /\ [][CallQueryAllDrives]_vars

----------------------------------------------------------------------------
(* Properties of the parser.                                               *)

\* The session a new parser is in after these lines.
RECURSIVE Run(_)
Run(lines) == IF lines = <<>> THEN NewParser
              ELSE parse(Run(SubSeq(lines, 1, Len(lines) - 1)), Last(lines)).s

NoDelimiter(line) == \A i \in 1..Len(line) : line[i] # ":"

\* The try body ends in an exception on this line.
LineFails(line) == decode(NewParser, line).exc.cls # "None"

Tag(line) == split(strip(line), ":", 1)[1]

KnownTags == {<<"PRGV">>, <<"DRV">>, <<"MSG">>, <<"PRGC">>, <<"PRGT">>, <<"CINFO">>,
              <<"TINFO">>, <<"SINFO">>, <<"TCOUNT">>}

WellFormed(line) == ~NoDelimiter(line) /\ Tag(line) \in KnownTags /\ ~LineFails(line)

\* The diagnostic parse leaves for a line: it embeds the line as received,
\* without the surrounding whitespace.
IsDiagnostic(msg, line) ==
    /\ Len(msg) >= 3 + Len(strip(line))
    /\ msg[1] = "Parsing Exception: "
    /\ SubSeq(msg, Len(msg) - Len(strip(line)) + 1, Len(msg)) = strip(line)

\* Every session field but raw_message and message.
PriorFields(s) ==
    <<s.message_type, s.title_count, s.progress, s.total_progress, s.drive_index,
      s.drive_visible, s.drive_enabled, s.disc_flags, s.drive_name, s.disc_name,
      s.operation, s.title_number, s.message_code, s.message_flags,
      s.message_format, s.message_params, s.disc, s.titles,
      s.message_error_count, s.message_success_count>>

\* C1: a line without the ':' delimiter does not raise past parse and leaves
\* message_type, title_count, the progress, drive and disc fields, operation,
\* title_number, message_code, message_flags, message_format, message_params,
\* the disc and titles maps and both counters as they were; the message field
\* holds the diagnostic for that line.
C1_NoDelimiterFrame ==
    [][(fed' # fed /\ NoDelimiter(Last(fed')))
        => /\ escaped'.cls = "None"
           /\ PriorFields(mmkv') = PriorFields(mmkv)
           /\ IsDiagnostic(mmkv'.message, Last(fed'))]_vars

\* C1's case: a session that already decoded something was fed such a line.
C1_Witness ==
    /\ Len(fed) >= 2
    /\ NoDelimiter(Last(fed))
    /\ PriorFields(mmkv) # PriorFields(NewParser)
    /\ IsDiagnostic(mmkv.message, Last(fed))

\* What a well-formed line stores, read back from a session.
Decoded(line, s) ==
    LET c == split(strip(line), ":", 1)[2]
        tag == Tag(line)
        f == split(c, ",", 4)
        i == TitleIndex(s.titles, int(f[1]).v) IN
    CASE tag = <<"PRGV">> -> <<s.progress, s.total_progress>>
      [] tag = <<"DRV">> -> <<s.drive_index, s.drive_visible, s.drive_enabled,
                              s.disc_flags, s.drive_name, s.disc_name>>
      [] tag = <<"MSG">> -> <<s.message_code, s.message_flags, s.message_format,
                              s.message_params, s.message_error_count,
                              s.message_success_count,
                              IF f[4] # <<>> THEN s.message ELSE <<>> >>
      [] tag \in {<<"PRGC">>, <<"PRGT">>} ->
             <<s.message_code, s.title_number, s.message, s.operation,
               s.message_flags, s.message_format, s.message_params>>
      [] tag = <<"CINFO">> -> <<s.disc[int(f[1]).v]>>
      [] tag = <<"TINFO">> -> <<s.titles[i].attrs[int(f[2]).v]>>
      [] tag = <<"SINFO">> -> <<s.titles[i].streams[int(f[2]).v][int(f[3]).v]>>
      [] tag = <<"TCOUNT">> -> <<s.title_count>>

\* C2: no parse call raises; after a failing line the message field is the
\* diagnostic embedding that line; and a well-formed line fed right after a
\* failing one stores what it stores when the failing line is left out.
C2_PerLineRecovery ==
    LET n == Len(fed) IN
    /\ escaped.cls = "None"
    /\ (n >= 1 /\ LineFails(fed[n])) => IsDiagnostic(mmkv.message, fed[n])
    /\ (n >= 2 /\ LineFails(fed[n - 1]) /\ WellFormed(fed[n]))
         => /\ mmkv.raw_message = strip(fed[n])
            /\ mmkv.message_type = Tag(fed[n])
            /\ Decoded(fed[n], mmkv)
                 = Decoded(fed[n], parse(Run(SubSeq(fed, 1, n - 2)), fed[n]).s)

\* C2's case: a failing line (not the first line of the session) was followed
\* by a well-formed one.
C2_Witness ==
    /\ Len(fed) >= 3
    /\ LineFails(fed[Len(fed) - 1])
    /\ ~NoDelimiter(fed[Len(fed) - 1])
    /\ WellFormed(Last(fed))
    /\ escaped.cls = "None"

MsgCodeOf(line) == int(split(split(strip(line), ":", 1)[2], ",", 4)[1]).v

\* C3: a well-formed MSG line with a code in MSG_CODE_ERRORS adds one to
\* message_error_count; one with a code in MSG_CODE_SUCCESS adds one to
\* message_success_count and sets message_error_count to 0.
C3_CountersFollowCodes ==
    [][(fed' # fed /\ WellFormed(Last(fed')) /\ Tag(Last(fed')) = <<"MSG">>)
        => /\ MsgCodeOf(Last(fed')) \in MSG_CODE_ERRORS
                => mmkv'.message_error_count = mmkv.message_error_count + 1
           /\ MsgCodeOf(Last(fed')) \in MSG_CODE_SUCCESS
                => /\ mmkv'.message_success_count = mmkv.message_success_count + 1
                   /\ mmkv'.message_error_count = 0]_vars

\* C20: over every sequence of parsed lines, message_error_count decreases
\* only by being set to 0 on a line carrying a success code, it changes only
\* on MSG lines, and message_success_count never decreases.
C20_CountersMonotone ==
    [][ /\ mmkv'.message_error_count < mmkv.message_error_count
           => /\ fed' # fed /\ WellFormed(Last(fed')) /\ Tag(Last(fed')) = <<"MSG">>
              /\ MsgCodeOf(Last(fed')) \in MSG_CODE_SUCCESS
              /\ mmkv'.message_error_count = 0
        /\ mmkv'.message_error_count # mmkv.message_error_count
           => fed' # fed /\ Tag(Last(fed')) = <<"MSG">>
        /\ mmkv'.message_success_count >= mmkv.message_success_count ]_vars

\* A line with a success code, then a line with an error code, were parsed.
C20_Witness ==
    /\ Len(fed) = 2 /\ escaped.cls = "None"
    /\ \A k \in 1..2 : WellFormed(fed[k]) /\ Tag(fed[k]) = <<"MSG">>
    /\ MsgCodeOf(fed[1]) \in MSG_CODE_SUCCESS
    /\ MsgCodeOf(fed[2]) \in MSG_CODE_ERRORS

\* Every title of old is a title of new, with every attribute and every
\* stream attribute it had; only the attribute addressed (title n, stream sn
\* or -1 for the title itself, attribute id) may have another value.
TitlesKept(old, new, n, sn, id) ==
    \A i \in 1..Len(old) :
       LET j == TitleIndex(new, old[i].key) IN
       /\ j # 0
       /\ \A a \in DOMAIN old[i].attrs :
             /\ a \in DOMAIN new[j].attrs
             /\ (old[i].key # n \/ sn # -1 \/ a # id) => new[j].attrs[a] = old[i].attrs[a]
       /\ \A s \in DOMAIN old[i].streams :
             /\ s \in DOMAIN new[j].streams
             /\ \A a \in DOMAIN old[i].streams[s] :
                   /\ a \in DOMAIN new[j].streams[s]
                   /\ (old[i].key # n \/ s # sn \/ a # id)
                        => new[j].streams[s][a] = old[i].streams[s][a]

\* The fields of a TINFO or SINFO line.
InfoFields(line) ==
    split(split(strip(line), ":", 1)[2], ",", IF Tag(line) = <<"TINFO">> THEN 3 ELSE 4)

\* C21: a well-formed TINFO or SINFO line, in any order, stores its value
\* under the title (and stream) it addresses, creating the title with an
\* empty stream map and the stream entry when absent; no line discards an
\* attribute stored earlier; every title entry has a stream map.
C21_TitlesCreatedLazily ==
    [][ fed' # fed =>
        LET line == Last(fed')
            isT == Tag(line) = <<"TINFO">> /\ WellFormed(line)
            isS == Tag(line) = <<"SINFO">> /\ WellFormed(line)
            f == InfoFields(line)
            n == int(f[1]).v
            j == TitleIndex(mmkv'.titles, n)
            absent == TitleIndex(mmkv.titles, n) = 0 IN
        /\ isT =>
              /\ TitlesKept(mmkv.titles, mmkv'.titles, n, -1, int(f[2]).v)
              /\ j # 0
              /\ mmkv'.titles[j].attrs[int(f[2]).v] = ProcessId(int(f[2]).v, f[4]).v
              /\ absent => DOMAIN mmkv'.titles[j].streams = {}
              /\ Len(mmkv'.titles) = Len(mmkv.titles) + (IF absent THEN 1 ELSE 0)
        /\ isS =>
              /\ TitlesKept(mmkv.titles, mmkv'.titles, n, int(f[2]).v, int(f[3]).v)
              /\ j # 0
              /\ int(f[2]).v \in DOMAIN mmkv'.titles[j].streams
              /\ mmkv'.titles[j].streams[int(f[2]).v][int(f[3]).v]
                    = ProcessId(int(f[3]).v, f[5]).v
              /\ absent => /\ DOMAIN mmkv'.titles[j].attrs = {}
                           /\ DOMAIN mmkv'.titles[j].streams = {int(f[2]).v}
              /\ Len(mmkv'.titles) = Len(mmkv.titles) + (IF absent THEN 1 ELSE 0)
        /\ (~isT /\ ~isS) => TitlesKept(mmkv.titles, mmkv'.titles, -1, -1, -1)
        /\ \A k \in 1..Len(mmkv'.titles) :
              \A s \in DOMAIN mmkv'.titles[k].streams :
                 DOMAIN mmkv'.titles[k].streams[s] \subseteq ATTR_ID ]_vars

\* A stream line for title 0 arrived first and created the title; the title
\* line arrived after it and found the stream still there.
C21_Witness ==
    /\ Len(fed) = 2 /\ escaped.cls = "None"
    /\ WellFormed(fed[1]) /\ Tag(fed[1]) = <<"SINFO">>
    /\ WellFormed(fed[2]) /\ Tag(fed[2]) = <<"TINFO">>
    /\ InfoFields(fed[1])[1] = InfoFields(fed[2])[1]
    /\ Len(mmkv.titles) = 1
    /\ DOMAIN mmkv.titles[1].streams # {} /\ DOMAIN mmkv.titles[1].attrs # {}

\* C40: a CINFO, TINFO or SINFO line whose try body ends in an exception
\* leaves the disc map and the titles map as they were.
C40_RejectedLineStoresNothing ==
    [][ (fed' # fed /\ ~NoDelimiter(Last(fed'))
           /\ Tag(Last(fed')) \in {<<"CINFO">>, <<"TINFO">>, <<"SINFO">>}
           /\ LineFails(Last(fed')))
        => (mmkv'.disc = mmkv.disc /\ mmkv'.titles = mmkv.titles) ]_vars

\* C34: in every state of a parser session message_code is -1 or a member
\* of MSG_CODE, message_flags -1 or a member of UI_MSG, drive_visible -1 or a
\* member of DRIVE_STATE and disc_flags -1 or a member of DISC_FLAG: a value
\* that fails validation is not stored.
C34_StoredEnumerationsLegal ==
    mmkv # <<>> =>
       /\ mmkv.message_code \in {-1} \cup MSG_CODE
       /\ mmkv.message_flags \in {-1} \cup UI_MSG
       /\ mmkv.drive_visible \in {-1} \cup DRIVE_STATE
       /\ mmkv.disc_flags \in {-1} \cup DISC_FLAG

----------------------------------------------------------------------------
(* Properties of Ripper.rip.                                               *)

\* rip is over: it returned normally, returned early, or raised.
Finished == pc \in {"done", "returned", "raised"}

DurationOf(titles, i) == titles[i].attrs[ATTR_Duration].value

\* The largest duration among the first i titles of the map (0 at least).
RECURSIVE RunningMax(_, _)
RunningMax(titles, i) ==
    IF i = 0 THEN 0
    ELSE IF DurationOf(titles, i) >= RunningMax(titles, i - 1) THEN DurationOf(titles, i)
    ELSE RunningMax(titles, i - 1)

\* The keys of the titles the filter is to keep.
InRange(titles, c) ==
    { titles[i].key : i \in { j \in 1..Len(titles) :
        /\ c.minimum_duration <= DurationOf(titles, j)
        /\ DurationOf(titles, j) <= c.maximum_duration
        /\ (c.media_type = "MOVIE" /\ c.feature_only)
              => DurationOf(titles, j) * MovieMinimumDen
                    >= RunningMax(titles, j) * MovieMinimumNum } }

Keys(titles) == { titles[i].key : i \in 1..Len(titles) }

\* The titles for which an extraction was started.
Extracted == { procs[i].title : i \in { j \in 1..Len(procs) : procs[j].cmd = "mkv" } }

Running == { i \in 1..Len(procs) : procs[i].state = "running" }

\* C4: after the filter pass the titles left for extraction are exactly those
\* with minimum <= duration <= maximum and, for a movie with feature_only,
\* duration >= 0.9 x the running maximum in map order.
C4_FilterKeepsExactlyInRange ==
    [][RipFilter => /\ exc'.cls = "None"
                    /\ Keys(mmkv'.titles) = InRange(mmkv.titles, cfg)
                    /\ rip'.title_count = Cardinality(InRange(mmkv.titles, cfg))]_vars

\* The titles with minimum <= duration <= maximum, and the longest of them.
WithinLimits(titles, c) ==
    { i \in 1..Len(titles) :
         /\ ATTR_Duration \in DOMAIN titles[i].attrs
         /\ titles[i].attrs[ATTR_Duration].value >= c.minimum_duration
         /\ titles[i].attrs[ATTR_Duration].value <= c.maximum_duration }

LongestWithin(titles, c) ==
    { titles[i].key : i \in { j \in WithinLimits(titles, c) :
         \A k \in WithinLimits(titles, c) :
            titles[k].attrs[ATTR_Duration].value <= titles[j].attrs[ATTR_Duration].value } }

\* C35: for a movie with feature_only, whenever some title has a duration
\* within [minimum, maximum], the filter pass is completed and a longest
\* such title is among the titles it leaves, in every title order and also
\* with titles longer than maximum in the map.
C35_LongestTitleRetained ==
    [][ ( /\ RipFilter
          /\ cfg.media_type = "MOVIE" /\ cfg.feature_only
          /\ WithinLimits(mmkv.titles, cfg) # {} )
        => /\ exc'.cls = "None"
           /\ LongestWithin(mmkv.titles, cfg) \cap Keys(mmkv'.titles) # {} ]_vars

\* C5: on a DATA_1 disc whose info pass lists a 500 s and a 4000 s title, with
\* minimum_duration 900 and movie classification with feature_only, the
\* finished rip has run the extraction for the 4000 s title only and the
\* renamed file of that title is in the media directory.
C5_MovieScenario ==
    ( /\ Finished
      /\ hw.disc_status = CDS_DATA_1 /\ env.makemkvcon
      /\ cfg.media_type = "MOVIE" /\ cfg.feature_only
      /\ cfg.minimum_duration = 900 /\ cfg.maximum_duration > 4000
      /\ cfg.remux_profile = "REMUX_NONE"
      /\ procs # <<>> /\ procs[1].script = InfoShortLong /\ procs[1].code = 0
      /\ \A i \in 1..Len(procs) : procs[i].cmd = "mkv" => procs[i].writes )
    => /\ Extracted = {1}
       /\ [dir |-> "media", name |-> <<"Movie", " I", "01", "T", "01", ".mkv">>] \in fs.files

\* C6: every finished rip has attempted the tray unlock exactly once, whether
\* the disc was not DATA_1, the info pass found no title, the filter dropped
\* titles, the engine exited non-zero or the muxer failed.
C6_UnlockAlways ==
    (Finished /\ exc.at \in {"none", "filter", "remux", "unlock"}) => unlocks = 1

\* C7: the eject loop is entered only if the last external-tool invocation
\* exited with 0 and eject_on_rip is set; never when eject was not requested,
\* the last invocation failed, or no invocation happened.
C7_EjectOnlyAfterSuccess ==
    eject.entered => /\ cfg.eject_on_rip
                     /\ procs # <<>>
                     /\ Last(procs).state = "exited" /\ Last(procs).code = 0

\* C7's case: eject was requested, the last engine invocation failed, and the
\* rip finished without entering the eject loop.
C7_Witness ==
    /\ pc = "done" /\ cfg.eject_on_rip
    /\ procs # <<>> /\ Last(procs).state = "exited" /\ Last(procs).code # 0
    /\ unlocks = 1 /\ ~eject.entered

\* C8: a rip of a DATA_1 disc that extracted at least one title, with every
\* engine invocation exiting 0 and eject_on_rip set, enters the eject loop.
C8_EjectAfterSuccessfulRip ==
    ( /\ pc = "done"
      /\ disc.disc_status = CDS_DATA_1 /\ cfg.eject_on_rip
      /\ Extracted # {}
      /\ \A i \in 1..Len(procs) : procs[i].state = "exited" /\ procs[i].code = 0 )
    => eject.entered /\ eject.attempts >= 1

\* The engine invocations of the device that are over.
ExitedRuns == { i \in 1..Len(procs) : procs[i].state = "exited" }

\* C32: last_run_code is the int -1 until an engine invocation is over, and
\* from then on the int exit code of the invocation that ended last, the info
\* pass or an extraction.
C32_LastRunCodeIsLastExitCode ==
    rip # <<>> =>
       IF ExitedRuns = {} THEN rip.last_run_code = PyInt(-1)
       ELSE rip.last_run_code =
               PyInt(procs[CHOOSE i \in ExitedRuns : \A j \in ExitedRuns : j <= i].code)

\* C33: once an engine invocation of the device has exited with a code other
\* than 0, no further engine process is started and no file is renamed or
\* remuxed for that device.
C33_AbortedAfterEngineFailure ==
    [][ (\E i \in ExitedRuns : procs[i].code # 0) =>
           /\ Len(procs') = Len(procs)
           /\ fs'.files = fs.files /\ fs'.remuxed = fs.remuxed ]_vars

\* C9: the engine is started, read, and its titles filtered, renamed and
\* remuxed only when the queried disc status is DATA_1; with any other status
\* the query is followed directly by the unlock step and nothing was run.
C9_EngineOnlyOnData1 ==
    [][ /\ (RipStartInfo \/ RipLine \/ RipInfoEnd \/ RipFilter \/ RipStartTitle
            \/ RipMkvEnd \/ RipLoopEnd) => disc.disc_status = CDS_DATA_1
        /\ (RipQuery /\ exc'.cls = "None" /\ disc'.disc_status # CDS_DATA_1)
              => pc' = "unlock"
        /\ (disc'.disc_status # CDS_DATA_1 /\ pc' # "start")
              => procs' = <<>> /\ fs'.files = {} /\ fs'.remuxed = {} /\ fs'.dirs = {} ]_vars

\* C9's case: an audio disc was queried and the rip finished after the unlock
\* with no engine run and nothing written.
C9_Witness ==
    /\ pc = "done" /\ disc.disc_status = CDS_AUDIO
    /\ procs = <<>> /\ fs.files = {} /\ unlocks = 1

\* C10: at most one engine process of the device runs at a time, and once an
\* extraction has been started the info process has exited with all of its
\* output read and fed to the parser, and every earlier extraction has exited.
C10_InfoThenSequential ==
    /\ Cardinality(Running) <= 1
    /\ \A i \in 1..Len(procs) :
          procs[i].cmd = "mkv"
          => /\ i > 1 /\ procs[1].cmd = "info"
             /\ procs[1].state = "exited" /\ procs[1].out = <<>>
             /\ Len(fed) >= Len(procs[1].script)
             /\ SubSeq(fed, 1, Len(procs[1].script)) = procs[1].script
             /\ \A j \in 2..(i - 1) : procs[j].state = "exited"

\* C10's case: the second extraction is running after the info pass and the
\* first extraction.
C10_Witness ==
    /\ Len(procs) = 3 /\ procs[3].cmd = "mkv" /\ procs[3].state = "running"
    /\ procs[2].cmd = "mkv" /\ procs[2].state = "exited"

\* C30: each rip is held to thread_time_limit measured for its device
\* alone: when main has left, every device whose rip took longer was
\* reported as timed out, and every device whose rip ended before the limit
\* had its result reported, whatever the other rips did.
C30_CeilingPerDevice ==
    main.pc = "exited" =>
        \A d \in 1..NDevices :
            /\ jobs[d].length > thread_time_limit => d \in main.timedout
            /\ jobs[d].length < thread_time_limit => d \in main.reported

\* C39: when main has left, one Ripper was constructed for every device and
\* its rip was run, once, to its end on the pool; main never leaves while a
\* submitted rip is pending or running.
C39_OneRipPerDevice ==
    main.pc = "exited" =>
        \A d \in 1..NDevices : jobs[d].id # -1 /\ jobs[d].state \in {"done", "raised"}

\* The Rippers main has constructed.
Constructed == { d \in 1..NDevices : jobs[d].id # -1 }

\* The configurations as far as a name depends on them.
NamingConfigs ==
    { c \in Configs : /\ c.eject_on_rip /\ c.minimum_duration = 0
                      /\ c.maximum_duration = 3800 /\ c.remux_profile = "REMUX_NONE" }

\* C36: two Rippers of one process with the same title, year, season and
\* media type rename to different paths, whatever the title numbers and the
\* names of the extracted files.
C36_RenameTargetsDiffer ==
    \A d, e \in Constructed :
       d # e =>
          \A c \in NamingConfigs, m, n \in {0, 1} :
             NewFilename([c EXCEPT !.id = jobs[d].id], Extracted0, m)
                # NewFilename([c EXCEPT !.id = jobs[e].id], Extracted0, n)

\* Every Ripper is constructed, and the first two rename title 0 of a movie
\* to two paths of the same directory.
C36_Witness ==
    /\ Constructed = 1..NDevices
    /\ LET c == CHOOSE x \in NamingConfigs : x.media_type = "MOVIE"
           a == NewFilename([c EXCEPT !.id = jobs[1].id], Extracted0, 0)
           b == NewFilename([c EXCEPT !.id = jobs[2].id], Extracted0, 0)
       IN a.dir = b.dir /\ a.name # b.name

----------------------------------------------------------------------------
(* Properties of _process_video_rename.                                    *)

----------------------------------------------------------------------------
(* Properties of main.                                                     *)

\* C11: when one device's pipeline fails (its Ripper's constructor raises, or
\* its rip raises or times out), every other device's rip has still been
\* started and has run to its end by the time main is over.
C11_OtherDevicesUnaffected ==
    main.pc = "exited"
    => \A d \in 1..NDevices : jobs[d].ctor = "ok" => jobs[d].state \in {"done", "raised"}

\* C12: Ripper.ID never decreases and no two Rippers hold the same id,
\* however the constructions interleave with the running rips.
C12_IdsIncreaseAndDiffer ==
    [][ /\ main'.ID >= main.ID
        /\ \A d, e \in 1..NDevices :
              (d # e /\ jobs'[d].id # -1 /\ jobs'[e].id # -1) => jobs'[d].id # jobs'[e].id ]_vars

\* C12's case: a second Ripper got its id while the first one's rip was running.
C12_Witness ==
    /\ jobs[1].state = "running" /\ jobs[1].id = 1
    /\ jobs[2].id = 2 /\ main.ID = 2

----------------------------------------------------------------------------
(* Properties of two pipelines.                                            *)

\* C37: the chapter file path one pipeline's Container uses is not used by
\* the other's, in every interleaving, also when a rename was skipped and
\* the Container is on the file under the name the engine gave it.
C37_ChapterPathsDiffer ==
    (jobs[1].xml # <<>> /\ jobs[2].xml # <<>>) => jobs[1].xml # jobs[2].xml

----------------------------------------------------------------------------
(* Properties of process_disc_devices.                                     *)

\* C13: process_disc_devices returns at most one path per physical device,
\* and when a symbolic link and a raw path of the input resolve to the same
\* block device, the path returned for that device is a symbolic link.
C13_OnePathPerDevice ==
    ret # <<>> =>
      /\ ret.cls = "None"
      /\ \A j, k \in 1..Len(ret.value) :
            Resolve(ret.value[j]) = Resolve(ret.value[k]) => j = k
      /\ \A j, k \in 1..Len(arg) :
            ( /\ IsSymlink(Rooted(arg[j])) /\ ~IsSymlink(Rooted(arg[k]))
              /\ IsBlockDevice(Rooted(arg[k]))
              /\ Resolve(Rooted(arg[j])) = Resolve(Rooted(arg[k])) )
            => \E m \in 1..Len(ret.value) :
                  IsSymlink(ret.value[m]) /\ Resolve(ret.value[m]) = Resolve(Rooted(arg[j]))

\* The path line 430 leaves in the list for an input path.
Fixed(p) == IF ~IsAbsolute(p) /\ IsBlockDevice(Rooted(p)) THEN Rooted(p) ELSE p

\* The positions of the input holding a symbolic link to the device target.
LinksTo(target) ==
    { j \in 1..Len(arg) : /\ IsBlockDevice(Fixed(arg[j])) /\ IsSymlink(Fixed(arg[j]))
                          /\ Resolve(Fixed(arg[j])) = target }

\* C22: when several symbolic links of the input resolve to one device,
\* exactly one of them is returned, the one that comes first in the input.
C22_FirstLinkKept ==
    ret # <<>> =>
      \A target \in {"/dev/sr0", "/dev/sr1"} :
         Cardinality(LinksTo(target)) >= 2 =>
            /\ ret.cls = "None"
            /\ Cardinality({ m \in 1..Len(ret.value) :
                  IsSymlink(ret.value[m]) /\ Resolve(ret.value[m]) = target }) = 1
            /\ \E m \in 1..Len(ret.value) :
                  ret.value[m] = Fixed(arg[CHOOSE j \in LinksTo(target) :
                                              \A k \in LinksTo(target) : j <= k])

----------------------------------------------------------------------------
(* Properties of the container.                                            *)

Elements(s) == { s[k] : k \in 1..Len(s) }

\* The languages of the streams of one type, and those streams.
LanguagesOf(streams, stream_type) ==
    { streams[k].language : k \in { j \in 1..Len(streams) : streams[j].type = stream_type } }

TracksOf(streams, stream_type) ==
    { streams[k] : k \in { j \in 1..Len(streams) : streams[j].type = stream_type } }

\* The effective list of a remux call is the requested one, with "und"
\* appended exactly when some requested language has no stream of the type.
UndIffMissing(requested, effective, streams, stream_type) ==
    LANG_UND \notin Elements(requested) =>
       IF \E l \in Elements(requested) : l \notin LanguagesOf(streams, stream_type)
       THEN effective = Append(requested, LANG_UND)
       ELSE effective = requested

\* C14: in remux_by_language, for audio and for subtitles, when the requested
\* list has no "und", "und" is appended to the effective list iff at least
\* one requested language has no stream of that type.
C14_UndIffSomeLanguageMissing ==
    [][ arg'.op = "remux_by_language" =>
          /\ UndIffMissing(arg'.audio_languages, ret'.audio_languages, ct.streams, "audio")
          /\ UndIffMissing(arg'.subtitle_languages, ret'.subtitle_languages,
                           ct.streams, "subtitles") ]_vars

\* Audio {eng, und} with filter {jpn} got "und"; subtitles with an eng
\* stream and filter {eng} did not.
C14_Witness ==
    /\ arg # <<>> /\ arg.op = "remux_by_language" /\ ret.cls = "None"
    /\ arg.audio_languages = <<"jpn">> /\ ret.audio_languages = <<"jpn", "und">>
    /\ LanguagesOf(ct.streams, "audio") = {"und"}
    /\ arg.subtitle_languages = <<"eng">> /\ ret.subtitle_languages = <<"eng">>
    /\ LanguagesOf(ct.streams, "subtitles") = {"eng"}

\* C15: remux_by_language with audio filter L on a file whose audio streams
\* have exactly the languages of L keeps L as the effective filter and, when
\* mkvmerge succeeds, keeps every audio track.
C15_FilterIdempotent ==
    [][ ( /\ arg'.op = "remux_by_language"
          /\ LanguagesOf(ct.streams, "audio") = Elements(arg'.audio_languages) )
        => /\ ret'.audio_languages = arg'.audio_languages
           /\ TracksOf(ct'.streams, "audio") = TracksOf(ct.streams, "audio") ]_vars

\* A file with eng and jpn audio was remuxed with filter (eng, jpn).
C15_Witness ==
    /\ arg # <<>> /\ arg.op = "remux_by_language" /\ ret.cls = "None"
    /\ arg.audio_languages = <<"eng", "jpn">> /\ ret.audio_languages = <<"eng", "jpn">>
    /\ LanguagesOf(ct.streams, "audio") = {"eng", "jpn"}
    /\ Cardinality(TracksOf(ct.streams, "audio")) = 2

\* C16: when several subtitle streams have the requested language, the one
\* _set_default_stream_by_language chooses has the largest frame count of them.
C16_MostFramesChosen ==
    [][ ( /\ arg'.op = "_set_default_stream_by_language"
          /\ arg'.stream_type = "subtitles" )
        => LET matching == { x \in TracksOf(ct.streams, "subtitles") :
                               x.language = arg'.language } IN
           Cardinality(matching) >= 2 =>
              \E x \in matching : /\ x.uid = ret'.uid
                                  /\ \A y \in matching : y.frames <= x.frames ]_vars

\* Of three eng subtitle streams with 5, 500 and 50 frames, the one with 500
\* was made the default.
C16_Witness ==
    /\ arg # <<>> /\ arg.op = "_set_default_stream_by_language"
    /\ arg.stream_type = "subtitles" /\ arg.language = "eng"
    /\ { x.frames : x \in TracksOf(ct.streams, "subtitles") } = {5, 500, 50}
    /\ ret.uid = 22 /\ ret.set
    /\ \A x \in TracksOf(ct.streams, "subtitles") : x.default <=> x.frames = 500

\* The streams of a type and language, and the stream with a uid.
Matching(streams, stream_type, language) ==
    { x \in TracksOf(streams, stream_type) : x.language = language }

\* What _set_default_stream_by_language chose from, and whether the stream it
\* chose was the default before the call.
ChoiceOf(streams, a, uid) ==
    LET matching == Matching(streams, a.stream_type, a.language)
        pool == IF matching = {} /\ a.default_required
                THEN TracksOf(streams, a.stream_type) ELSE matching
    IN [none |-> pool = {},
        from_pool |-> \E x \in pool : x.uid = uid,
        default |-> \E x \in pool : x.uid = uid /\ x.default]

\* The original statement of C31: whenever a candidate is chosen that is not
\* yet the default, exactly one edit is run and the container is reloaded.
C31_OneEditWheneverNotDefault ==
    [][ (arg' # <<>> /\ arg'.op = "_set_default_stream_by_language") =>
          LET c == ChoiceOf(ct.streams, arg', ret'.uid) IN
          /\ c.none => ret'.edits = 0 /\ ret'.reloads = 0 /\ ct' = ct
          /\ ~c.none => c.from_pool
          /\ (~c.none /\ c.default) => ret'.edits = 0 /\ ret'.reloads = 0 /\ ct' = ct
          /\ (~c.none /\ ~c.default) => ret'.edits = 1 /\ ret'.reloads = 1 ]_vars

\* C31: the candidates are the streams of the requested type and language,
\* or all streams of the type when there are none and default_required is set;
\* with no candidate, or with the chosen one already default, no edit is run
\* and nothing is reloaded; otherwise the container is reloaded once, after
\* exactly one edit on the chosen uid, or after none when mkvpropedit is not
\* found and FileNotFoundError leaves the call.
C31_OneEditUnlessToolMissing ==
    [][ (arg' # <<>> /\ arg'.op = "_set_default_stream_by_language") =>
          LET c == ChoiceOf(ct.streams, arg', ret'.uid) IN
          /\ c.none => ret'.edits = 0 /\ ret'.reloads = 0 /\ ct' = ct
          /\ ~c.none => c.from_pool
          /\ (~c.none /\ c.default) => ret'.edits = 0 /\ ret'.reloads = 0 /\ ct' = ct
          /\ (~c.none /\ ~c.default) =>
                /\ ret'.reloads = 1
                /\ ret'.edits = IF ret'.cls = "FileNotFoundError" THEN 0 ELSE 1 ]_vars

\* There was no eng audio stream and default_required was set: an audio
\* stream of another language was edited, once, and the container reloaded.
C31_Witness ==
    /\ arg # <<>> /\ arg.op = "_set_default_stream_by_language"
    /\ arg.stream_type = "audio" /\ arg.language = "eng" /\ arg.default_required
    /\ Matching(ct.streams, "audio", "eng") = {}
    /\ ret.edits = 1 /\ ret.reloads = 1 /\ ret.set
    /\ \E x \in TracksOf(ct.streams, "audio") : x.uid = ret.uid /\ x.default

\* C38: after _process_video_remux has completed, at most one audio stream
\* of the file has the default flag, and when the file has a stream of the
\* preferred audio language, a stream of that language is the default one.
C38_OneDefaultAudio ==
    (ret # <<>> /\ ret.cls = "None" /\ ret.commands_ok) =>
        LET flagged == { x \in TracksOf(ct.streams, "audio") : x.default } IN
        /\ Cardinality(flagged) <= 1
        /\ Matching(ct.streams, "audio", arg.profile.preferred_audio_language) # {}
              => \E x \in flagged : x.language = arg.profile.preferred_audio_language

\* C17: _detect_chapter_gaps is true iff, in start-time order, some chapter
\* starts strictly after the end of the chapter immediately before it.
C17_GapIffStartAfterPreviousEnd ==
    [][ arg'.op = "_detect_chapter_gaps" =>
          LET c == ct.chapters IN
          /\ \A k \in 2..Len(c) : c[k - 1].start_time < c[k].start_time
          /\ ret'.value <=> \E k \in 2..Len(c) : c[k].start_time > c[k - 1].end_time ]_vars

\* No gap was reported for chapters that only touch.
C17_Witness ==
    /\ arg # <<>> /\ arg.op = "_detect_chapter_gaps"
    /\ ct.chapters = <<Chapter(0, 10), Chapter(10, 20)>>
    /\ ret.value = FALSE

\* C25: while a remux that succeeds replaces the file, the original path is
\* never without a file; afterwards it holds the remuxed content, the
\* '.remuxed' path is gone and the streams are those of the new file.
C25_ReplacedAtomically ==
    /\ fs.original # "absent"
    /\ pc = "done" =>
          /\ fs = [original |-> "remuxed", output |-> "absent"]
          /\ \A k \in 1..Len(ct.streams) :
                \/ ct.streams[k].type = "video"
                \/ /\ ct.streams[k].type = "audio"
                   /\ ret.audio_languages # <<>> =>
                         ct.streams[k].language \in Elements(ret.audio_languages)
                \/ /\ ct.streams[k].type = "subtitles"
                   /\ ct.streams[k].language \in Elements(ret.subtitle_languages)

----------------------------------------------------------------------------
(* Properties of Ripper._eject.                                            *)

EjectEnded == eject.pc # "loop"

EjectOutcome ==
    /\ eject.pc # "loop" => eject.attempts >= 1
    /\ eject.last = CDS_TRAY_OPEN => eject.pc = "returned" /\ eject.result = "True"
    /\ eject.result = "True" => eject.last = CDS_TRAY_OPEN
    /\ eject.result = "False" => eject.now > eject.timeout
    /\ (eject.pc = "loop" /\ eject.attempts > 0) =>
          eject.now <= eject.timeout /\ eject.last # CDS_TRAY_OPEN

----------------------------------------------------------------------------
(* Properties of Container._get_chapters.                                  *)

\* The extractor ran, exited with 0 and wrote a file that parses, and every
\* time in it has its three fields.
Extractable ==
    /\ arg.mkvextract /\ arg.code = 0 /\ arg.written /\ arg.parsable
    /\ \A k \in 1..Len(arg.atoms) :
          /\ arg.atoms[k].start.present => Len(arg.atoms[k].start.text) = 3
          /\ arg.atoms[k].end.present => Len(arg.atoms[k].end.text) = 3

\* The atoms with both times, as chapters, by start time.
BothTimes(atoms) ==
    LET both == SelectSeq(atoms, LAMBDA x : x.start.present /\ x.end.present)
        chs == [k \in 1..Len(both) |->
                   Chapter(both[k].start.text[1] * 3600 + both[k].start.text[2] * 60
                              + both[k].start.text[3],
                           both[k].end.text[1] * 3600 + both[k].end.text[2] * 60
                              + both[k].end.text[3])]
    IN StableSort(chs, [k \in 1..Len(chs) |-> chs[k].start_time])

\* C28: _get_chapters yields exactly the chapter atoms that have both a
\* start and an end time, sorted by start time; an atom lacking one of them
\* is left out and no exception leaves the call.
C28_AtomsWithoutTimesLeftOut ==
    (ret # <<>> /\ Extractable) =>
        ret.cls = "None" /\ ct.chapters = BothTimes(arg.atoms)

\* C29: after _get_chapters the chapter-XML file does not exist, however the
\* call ended, and the finally clause raised nothing.
C29_ChapterFileRemoved ==
    ret # <<>> => fs.xml = "absent" /\ ret.at # "finally"

----------------------------------------------------------------------------
(* Properties of the disc queries.                                         *)

\* A status call on a drive: the code is returned iff it is in the set
\* codes, and otherwise ValueError is raised and the code is not returned.
StatusDecoded(r, code, codes) ==
    IF code \in codes THEN r = [cls |-> "None", value |-> code]
    ELSE r.cls = "ValueError" /\ r.value # code

\* A query step on a drive: it raises iff one of the two codes is not
\* accepted, and a code that is not accepted is not stored in the handle.
Stored(drive_codes, disc_codes) ==
    /\ ret'.cls = "ValueError" <=>
          (hw.drive_status \notin drive_codes \/ hw.disc_status \notin disc_codes)
    /\ hw.drive_status \notin drive_codes => disc'.drive_status # hw.drive_status
    /\ hw.disc_status \notin disc_codes => disc'.disc_status # hw.disc_status
    /\ ret'.cls = "None" =>
          disc'.drive_status = hw.drive_status /\ disc'.disc_status = hw.disc_status

\* The steps in which a call is made on a CD-ROM drive.
DecodesWith(drive_codes, disc_codes) ==
    (hw' = hw /\ arg' # <<>> /\ hw.exists /\ hw.cdrom) =>
       /\ arg'.op = "get_drive_status" => StatusDecoded(ret', hw.drive_status, drive_codes)
       /\ arg'.op = "get_disc_status" => StatusDecoded(ret', hw.disc_status, disc_codes)
       /\ arg'.op = "query" => Stored(drive_codes, disc_codes)

FiveDriveCodes == {CDS_NO_INFO, CDS_NO_DISC, CDS_TRAY_OPEN, CDS_DRIVE_NOT_READY, CDS_DISC_OK}

SixContentCodes == {CDS_AUDIO, CDS_DATA_1, CDS_DATA_2, CDS_XA_1, CDS_XA_2, CDS_MIXED}

\* C18 as stated: get_drive_status returns the code iff it is one of the
\* five drive codes, get_disc_status returns the code iff it is one of the
\* five drive codes or the six content codes; every other code raises a
\* decode error and is neither returned nor stored in the handle.
C18_DecodesElevenDiscCodes ==
    [][ DecodesWith(FiveDriveCodes, FiveDriveCodes \cup SixContentCodes) ]_vars

\* C18, amended: get_disc_status returns the code iff it is NO_INFO, NO_DISC
\* or one of the six content codes; TRAY_OPEN, DRIVE_NOT_READY and DISC_OK
\* raise like any other code.  The rest is as stated.
C18_DecodesEightDiscCodes ==
    [][ DecodesWith(FiveDriveCodes, {CDS_NO_INFO, CDS_NO_DISC} \cup SixContentCodes) ]_vars

\* A query on a drive answering DISC_OK to both ioctls raised, stored DISC_OK
\* as the drive status and kept DATA_1 as the disc status.
C18_Witness ==
    /\ arg # <<>> /\ arg.op = "query" /\ ret.cls = "ValueError"
    /\ hw.exists /\ hw.cdrom
    /\ hw.drive_status = CDS_DISC_OK /\ hw.disc_status = CDS_DISC_OK
    /\ disc.drive_status = CDS_DISC_OK /\ disc.disc_status = CDS_DATA_1

\* C24: when a device-control operation has ended, with a status or with an
\* error from the device, no descriptor it opened is still open.
C24_NoDescriptorLeftOpen == fds = 0

----------------------------------------------------------------------------
(* Properties of Ripper.__init__.                                          *)

SeasonValid(season) == season.type = "int" => season.value >= 0

\* C19: a Ripper given an empty title, a missing root directory, a season
\* below 0, an unrecognized media type or minimum_duration >= maximum_duration
\* raises before any device I/O; and every Ripper constructed has a non-empty
\* title, an existing root directory, a season absent or >= 0, minimum <
\* maximum and a media type of VIDEO, MOVIE or SHOW.
C19_ValidatedBeforeDeviceIO ==
    ret # <<>> =>
      /\ ( \/ arg.title = <<>> \/ ~arg.root_exists \/ ~SeasonValid(arg.season)
           \/ arg.media_type \notin {"VIDEO", "MOVIE", "SHOW"}
           \/ arg.minimum_duration >= arg.maximum_duration )
         => ret.cls # "None" /\ ~ret.io
      /\ ret.cls = "None" =>
           /\ ret.self.title # <<>>
           /\ arg.root_exists
           /\ SeasonValid(ret.self.season)
           /\ ret.self.minimum_duration < ret.self.maximum_duration
           /\ ret.self.media_type \in {"VIDEO", "MOVIE", "SHOW"}

----------------------------------------------------------------------------
(* Properties of the order of handles.                                     *)

\* C23: on the handles query_all_drives sorts, exactly one of a < b, a == b,
\* a > b holds, a < b excludes b < a, < is transitive and puts symbolic
\* links before raw paths; so the list returned is the same for every order
\* in which the directory lists the same devices.
C23_HandlesTotallyOrdered ==
    ret # <<>> =>
      LET H == { arg.listed[k] : k \in 1..Len(arg.listed) } IN
      /\ \A a, b \in H :
            /\ Cardinality({ r \in {"lt", "eq", "gt"} :
                  \/ r = "lt" /\ DiscLt(a, b)
                  \/ r = "eq" /\ DiscEq(a, b)
                  \/ r = "gt" /\ DiscGt(a, b) }) = 1
            /\ DiscLt(a, b) => ~DiscLt(b, a)
            /\ (a.symlink /\ ~b.symlink) => DiscLt(a, b)
      /\ \A a, b, c \in H : (DiscLt(a, b) /\ DiscLt(b, c)) => DiscLt(a, c)
      /\ \A other \in Listings :
            { other[k] : k \in 1..Len(other) } = H
            => query_all_drives(other, arg.only_symbolic_links, arg.blacklist) = ret.value

====
